---- MODULE Spec2Model ----
(***************************************************************************)
(* MoniSens device registry (src/src/service/device.rs): the               *)
(* DeviceManager with its atomic last_id, the outer RwLock around the      *)
(* device map, the per-device RwLocks, and the per-device directory tree   *)
(* on disk.  Each request runs as a task; an async operation is split at   *)
(* its await points, a blocking lock acquisition is a guarded step.        *)
(***************************************************************************)
EXTENDS Integers, Sequences, FiniteSets, TLC

\* ------------------------------------------------------------------ bounds
MaxId == 3
MaxCalls == 2

\* Two requests run concurrently.
Tasks == {1, 2}

\* --------------------------------------------------------------- strings
\* A string is a sequence of one-character strings; a path is a sequence of
\* components (strings).
DigitChar == <<"0", "1", "2", "3", "4", "5", "6", "7", "8", "9">>

RECURSIVE to_string(_)
to_string(n) ==
    IF n < 0 THEN <<"-">> \o to_string(0 - n)
    ELSE IF n < 10 THEN <<DigitChar[n + 1]>>
    ELSE to_string(n \div 10) \o <<DigitChar[(n % 10) + 1]>>

MODULE_FILE_EXT == <<".", "s", "o">>

\* "<id>-<name>", a relative path of one component
build_device_dir_name(id, name) == << to_string(id) \o <<"-">> \o name >>

\* <app data dir>/device
data_dir == << <<"device">> >>

full_data_dir(rel) == data_dir \o rel

full_module_file_path(module_dir) ==
    (data_dir \o module_dir) \o << <<"l", "i", "b">> \o MODULE_FILE_EXT >>

IsPrefix(p, q) == Len(p) <= Len(q) /\ SubSeq(q, 1, Len(p)) = p

Parent(p) == SubSeq(p, 1, Len(p) - 1)

\* ------------------------------------------------------------ filesystem
\* fs maps every existing path to "dir" or to the content of the file.
Put(f, k, v) == [x \in (DOMAIN f) \cup {k} |-> IF x = k THEN v ELSE f[x]]

Drop(f, ks) == [x \in (DOMAIN f) \ ks |-> f[x]]

Exists(f, p) == p \in DOMAIN f

IsDir(f, p) == p \in DOMAIN f /\ f[p] = "dir"

\* fs::create_dir: the parent must be a directory and the path must be new;
\* any call may also fail with an OS error.  The result is the set of
\* possible outcomes.
create_dir(f, p) ==
    {[ok |-> FALSE, fs |-> f]} \cup
    (IF IsDir(f, Parent(p)) /\ ~Exists(f, p)
        THEN {[ok |-> TRUE, fs |-> Put(f, p, "dir")]}
        ELSE {})

Under(f, p) == {q \in DOMAIN f : IsPrefix(p, q)}

\* A set of paths that can be removed together: with a directory go all the
\* paths under it.
DownClosed(f, S) == \A q \in S : Under(f, q) \subseteq S

\* fs::remove_dir_all: removes the whole tree, or fails.  It is not atomic:
\* a failure may leave the tree partly removed (the root is removed last).
remove_dir_all(f, p) ==
    IF ~IsDir(f, p)
        THEN {[ok |-> FALSE, fs |-> f]}
        ELSE {[ok |-> TRUE, fs |-> Drop(f, Under(f, p))]} \cup
             {[ok |-> FALSE, fs |-> Drop(f, S)] :
                 S \in {T \in SUBSET (Under(f, p) \ {p}) : DownClosed(f, T)}}

\* ------------------------------------------------------- device, sensors
\* a bug: the two wide integer types are exchanged
sensor_data_type_from_udt_swapped(udt_name) ==
    CASE udt_name = "int2" -> "Int16"
      [] udt_name = "int4" -> "Int64"
      [] udt_name = "int8" -> "Int32"
      [] udt_name = "float4" -> "Float32"
      [] udt_name = "float8" -> "Float64"
      [] udt_name = "timestamp" -> "Timestamp"
      [] udt_name = "text" -> "String"
      [] udt_name = "jsonb" -> "JSON"
      [] OTHER -> "None"

\* a bug: a type that is not known is read as text
sensor_data_type_from_udt_text(udt_name) ==
    CASE udt_name = "int2" -> "Int16"
      [] udt_name = "int4" -> "Int32"
      [] udt_name = "int8" -> "Int64"
      [] udt_name = "float4" -> "Float32"
      [] udt_name = "float8" -> "Float64"
      [] udt_name = "timestamp" -> "Timestamp"
      [] udt_name = "jsonb" -> "JSON"
      [] OTHER -> "String"

sensor_data_type_from_udt(udt_name) ==
    CASE udt_name = "int2" -> "Int16"
      [] udt_name = "int4" -> "Int32"
      [] udt_name = "int8" -> "Int64"
      [] udt_name = "float4" -> "Float32"
      [] udt_name = "float8" -> "Float64"
      [] udt_name = "timestamp" -> "Timestamp"
      [] udt_name = "text" -> "String"
      [] udt_name = "jsonb" -> "JSON"
      [] OTHER -> "None"

\* ctrl::DeviceInitState::from(&db_model::DeviceInitState)
DeviceInitStateFrom(v) ==
    CASE v = "DEVICE" -> "Device"
      [] v = "SENSORS" -> "Sensors"

\* struct Device
Device(name, display_name, module_dir, data_dir_, init_state, sensor_map) ==
    [name |-> name, display_name |-> display_name, module_dir |-> module_dir,
     data_dir |-> data_dir_, init_state |-> init_state, sensor_map |-> sensor_map]

\* ------------------------------------------------- DeviceManager::new
\* First loop: the device map and last_id.
\* a bug: last_id is the id of the last row, not of the greatest
RECURSIVE NewDevicesLast(_, _, _)
NewDevicesLast(devices, device_map_, last_id_) ==
    IF devices = <<>> THEN [device_map |-> device_map_, last_id |-> last_id_]
    ELSE LET device == Head(devices) IN
         NewDevicesLast(Tail(devices),
                        Put(device_map_, device.id,
                            Device(device.name, device.display_name, device.module_dir,
                                   device.data_dir, DeviceInitStateFrom(device.init_state),
                                   <<>>)),
                        device.id)

RECURSIVE NewDevices(_, _, _)
NewDevices(devices, device_map_, last_id_) ==
    IF devices = <<>> THEN [device_map |-> device_map_, last_id |-> last_id_]
    ELSE LET device == Head(devices) IN
         NewDevices(Tail(devices),
                    Put(device_map_, device.id,
                        Device(device.name, device.display_name, device.module_dir,
                               device.data_dir, DeviceInitStateFrom(device.init_state),
                               <<>>)),
                    IF device.id > last_id_ THEN device.id ELSE last_id_)

\* Second loop: one Sensor per table name, a column at a time.
RECURSIVE NewSensors(_, _)
NewSensors(sensor_types, sensors_res) ==
    IF sensor_types = <<>> THEN [ok |-> TRUE, sensors_res |-> sensors_res]
    ELSE LET sensor_type == Head(sensor_types)
             entry == IF sensor_type.table_name \in DOMAIN sensors_res
                         THEN sensors_res[sensor_type.table_name]
                         ELSE [name |-> sensor_type.table_name, data_map |-> <<>>]
             typ == sensor_data_type_from_udt(sensor_type.udt_name)
         IN IF typ = "None"
               THEN [ok |-> FALSE, err |-> "SensorDataUnknownType",
                     table |-> sensor_type.table_name, column |-> sensor_type.column_name]
               ELSE NewSensors(Tail(sensor_types),
                        Put(sensors_res, sensor_type.table_name,
                            [entry EXCEPT !.data_map =
                                Put(@, sensor_type.column_name,
                                    [name |-> sensor_type.column_name, typ |-> typ])]))

\* a bug: the device_sensor rows are not looked at
NewMapLenient(device_sensors, device_map_, sensors_res) ==
    [ok |-> TRUE, device_map |-> device_map_]

\* Third loop: hand each Sensor to the device of its device_sensor row.
RECURSIVE NewMap(_, _, _)
NewMap(device_sensors, device_map_, sensors_res) ==
    IF device_sensors = <<>> THEN [ok |-> TRUE, device_map |-> device_map_]
    ELSE LET device_sensor == Head(device_sensors)
             device_id == device_sensor.device_id
         IN IF device_id \notin DOMAIN device_map_
               THEN [ok |-> FALSE, err |-> "DeviceSensorsUnknownDevice"]
               ELSE IF device_sensor.sensor_table_name \in DOMAIN sensors_res
                       THEN NewMap(Tail(device_sensors),
                                [device_map_ EXCEPT ![device_id].sensor_map =
                                    Put(@, device_sensor.sensor_name,
                                        sensors_res[device_sensor.sensor_table_name])],
                                Drop(sensors_res, {device_sensor.sensor_table_name}))
                       ELSE NewMap(Tail(device_sensors), device_map_, sensors_res)

New(devices, device_sensors, sensor_types) ==
    LET d == NewDevices(devices, <<>>, 0)
        s == NewSensors(sensor_types, <<>>)
    IN IF ~s.ok THEN s
       ELSE LET m == NewMap(device_sensors, d.device_map, s.sensors_res)
            IN IF ~m.ok THEN m
               ELSE [ok |-> TRUE, last_id |-> d.last_id, device_map |-> m.device_map]

\* ------------------------------------------------------------------ state
VARIABLES
    last_id,      \* DeviceManager.last_id (AtomicI32)
    device_map,   \* the ids that are keys of DeviceManager.device_map
    dev,          \* id -> Device: every Arc<RwLock<Device>> ever made (ids are not reused)
    outer_w,      \* the task holding the write lock of device_map, or 0
    outer_r,      \* the tasks holding a read lock of device_map
    dev_w,        \* id -> the task holding the device's write lock, or 0
    dev_r,        \* id -> the tasks holding a read lock of the device
    fs,           \* the disk: path -> "dir" or a file's content
    pc,           \* task -> its position
    loc,          \* task -> its arguments, locals and result; pre, pre_sensors and
                  \* overlap record what the call found, for the properties
    hist,         \* the ids and names of all start_device_init calls, in allocation order
    succeeded,    \* the ids start_device_init returned Ok for
    removed,      \* the ids delete_device removed from device_map
    calls,        \* the number of operations started
    boot,         \* the rows main read for DeviceManager::new, and what new returned
    committed     \* id -> the Device value when its write lock was last free

vars == <<last_id, device_map, dev, outer_w, outer_r, dev_w, dev_r, fs, pc, loc,
          hist, succeeded, removed, calls, boot, committed>>

\* -------------------------------------------------------------- inputs
Names == { <<"a">>, <<"1", "-", "a">> }

DisplayNameOf(name) == IF name = <<"a">> THEN "A" ELSE "1 A"

ModuleFiles == {"m1"}

SensorA == [name |-> "s1", data_map |-> Put(<<>>, "f1", [name |-> "f1", typ |-> "Int32"])]

SensorB == [name |-> "s2", data_map |-> Put(<<>>, "f1", [name |-> "f1", typ |-> "String"])]

SensorA2 == [name |-> "s1", data_map |-> Put(<<>>, "f2", [name |-> "f2", typ |-> "JSON"])]

\* Vec<Sensor> arguments; sensor names are unique within one vector.
SensorVecs == { <<SensorA>>, <<SensorA2, SensorB>> }

\* The rows the service is booted from: an empty database, or the devices
\* left by an earlier run (device 1 is not configured, device 2 is).
DeviceRow(id, name, init_state) ==
    [id |-> id, name |-> name, display_name |-> DisplayNameOf(name),
     module_dir |-> build_device_dir_name(id, name) \o << <<"module">> >>,
     data_dir |-> build_device_dir_name(id, name) \o << <<"data">> >>,
     init_state |-> init_state]

BootInputs ==
    { [devices |-> <<>>, device_sensors |-> <<>>, sensor_types |-> <<>>],
      [devices |-> << DeviceRow(1, <<"a">>, "DEVICE"), DeviceRow(2, <<"a">>, "SENSORS") >>,
       device_sensors |-> << [device_id |-> 2, sensor_name |-> "s1",
                              sensor_table_name |-> "t1"] >>,
       sensor_types |-> << [table_name |-> "t1", column_name |-> "f1",
                            udt_name |-> "int4"] >>] }

\* The tree start_device_init leaves on disk for a device.
DeviceTree(id, name, file) ==
    LET dir == build_device_dir_name(id, name) IN
    [p \in { full_data_dir(dir),
             full_data_dir(dir \o << <<"module">> >>),
             full_data_dir(dir \o << <<"data">> >>),
             full_module_file_path(dir \o << <<"module">> >>) } |->
        IF p = full_module_file_path(dir \o << <<"module">> >>) THEN file ELSE "dir"]

RECURSIVE BootFs(_)
BootFs(devices) ==
    IF devices = <<>> THEN [p \in {data_dir} |-> "dir"]
    ELSE LET t == DeviceTree(Head(devices).id, Head(devices).name, "m1")
             r == BootFs(Tail(devices))
         IN [p \in (DOMAIN t) \cup (DOMAIN r) |-> IF p \in DOMAIN t THEN t[p] ELSE r[p]]

NoData ==
    [id |-> 0, module_file |-> <<>>, data_dir |-> <<>>, full_data_dir |-> <<>>,
     module_dir |-> <<>>, init_state |-> "none"]

NoRes == [status |-> "none", err |-> "none", data |-> NoData]

Err(e) == [status |-> "err", err |-> e, data |-> NoData]

NoLoc ==
    [op |-> "none", id |-> 0, name |-> <<>>, display_name |-> "", file |-> "",
     sensors |-> <<>>, i |-> 0, pre |-> "none", pre_sensors |-> <<>>, overlap |-> FALSE,
     order |-> <<>>, out |-> <<>>, seen |-> {}, arg |-> <<>>, nil |-> "", endpoint |-> "",
     res |-> NoRes]

Init ==
    \E rows \in BootInputs :
        LET m == New(rows.devices, rows.device_sensors, rows.sensor_types) IN
        /\ m.ok
        /\ boot = [input |-> rows, done |-> TRUE, res |-> m]
        /\ committed = m.device_map
        /\ last_id = m.last_id
        /\ device_map = DOMAIN m.device_map
        /\ dev = m.device_map
        /\ outer_w = 0
        /\ outer_r = {}
        /\ dev_w = [id \in DOMAIN m.device_map |-> 0]
        /\ dev_r = [id \in DOMAIN m.device_map |-> {}]
        /\ fs = BootFs(rows.devices)
        /\ pc = [t \in Tasks |-> "idle"]
        /\ loc = [t \in Tasks |-> NoLoc]
        /\ hist = <<>>
        /\ succeeded = {}
        /\ removed = {}
        /\ calls = 0

\* ------------------------------------------------------------- locking
\* a bug: a read lock that does not wait for the writer
CanReadAlways(lw) == TRUE

CanRead(lw) == lw = 0

\* a bug: a write lock that excludes readers but not another writer
CanWriteShared(lw, lr) == lr = {}

CanWrite(lw, lr) == lw = 0 /\ lr = {}

\* ---------------------------------------------------- start_device_init
\* a bug: last_id is read, not advanced (load in place of fetch_add)
inc_last_id_load(last) == [last_id |-> last, id |-> last + 1]

\* a bug: the id is computed from the value after the increment
inc_last_id_after(last) == [last_id |-> last + 1, id |-> last + 2]

\* fetch_add(1) returns the previous value; the id is that value + 1
inc_last_id(last) == [last_id |-> last + 1, id |-> last + 1]

DirName(t) == build_device_dir_name(loc[t].id, loc[t].name)

ModuleDir(t) == DirName(t) \o << <<"module">> >>

DataDir(t) == DirName(t) \o << <<"data">> >>

InFlight == {"sdi_dir", "sdi_module_dir", "sdi_data_dir", "sdi_open", "sdi_create",
             "sdi_copy", "sdi_insert"}

\* The call and its first poll: the id is taken, then the task awaits the
\* creation of the device directory.
StartDeviceInit(t, name, file) ==
    /\ pc[t] = "idle"
    /\ calls < MaxCalls
    /\ last_id < MaxId
    /\ LET a == inc_last_id(last_id) IN
        /\ last_id' = a.last_id
        /\ loc' = [loc EXCEPT ![t] = [NoLoc EXCEPT !.op = "start_device_init",
                       !.id = a.id, !.name = name,
                       !.display_name = DisplayNameOf(name), !.file = file,
                       !.overlap = \E u \in Tasks \ {t} : pc[u] \in InFlight]]
        /\ hist' = Append(hist, [id |-> a.id, name |-> name])
    /\ pc' = [pc EXCEPT ![t] = "sdi_dir"]
    /\ calls' = calls + 1
    /\ UNCHANGED <<boot, committed, device_map, dev, outer_w, outer_r, dev_w, dev_r, fs,
                   succeeded, removed>>

\* self.create_data_dir(rel).await?
SdiCreateDataDir(t, at, rel, next) ==
    /\ pc[t] = at
    /\ \E r \in create_dir(fs, full_data_dir(rel)) :
        /\ fs' = r.fs
        /\ IF r.ok
              THEN /\ pc' = [pc EXCEPT ![t] = next]
                   /\ loc' = loc
              ELSE /\ pc' = [pc EXCEPT ![t] = "sdi_err"]
                   /\ loc' = [loc EXCEPT ![t].res = Err("io")]
    /\ UNCHANGED <<boot, committed, last_id, device_map, dev, outer_w, outer_r, dev_w, dev_r,
                   hist, succeeded, removed, calls>>

SdiDir(t) == SdiCreateDataDir(t, "sdi_dir", DirName(t), "sdi_module_dir")

SdiModuleDir(t) == SdiCreateDataDir(t, "sdi_module_dir", ModuleDir(t), "sdi_data_dir")

SdiDataDir(t) == SdiCreateDataDir(t, "sdi_data_dir", DataDir(t), "sdi_open")

\* fs::File::open(&path): succeeds only if the path is there, and may fail
\* with an OS error even then
file_open(f, p) == {FALSE} \cup (IF Exists(f, p) THEN {TRUE} ELSE {})

\* create_file: `if let Ok(_) = fs::File::open(&path).await`
SdiOpen(t) ==
    /\ pc[t] = "sdi_open"
    /\ \E opened \in file_open(fs, full_module_file_path(ModuleDir(t))) :
       IF opened
          THEN /\ pc' = [pc EXCEPT ![t] = "sdi_err"]
               /\ loc' = [loc EXCEPT ![t].res = Err("AlreadyExists")]
          ELSE /\ pc' = [pc EXCEPT ![t] = "sdi_create"]
               /\ loc' = loc
    /\ UNCHANGED <<boot, committed, last_id, device_map, dev, outer_w, outer_r, dev_w, dev_r, fs,
                   hist, succeeded, removed, calls>>

\* fs::File::create(path): creates the file, or truncates the one there
file_create(f, p) ==
    {[ok |-> FALSE, fs |-> f]} \cup
    (IF IsDir(f, Parent(p)) /\ ~IsDir(f, p)
        THEN {[ok |-> TRUE, fs |-> Put(f, p, "")]}
        ELSE {})

SdiCreate(t) ==
    /\ pc[t] = "sdi_create"
    /\ \E r \in file_create(fs, full_module_file_path(ModuleDir(t))) :
        /\ fs' = r.fs
        /\ IF r.ok
              THEN /\ pc' = [pc EXCEPT ![t] = "sdi_copy"]
                   /\ loc' = loc
              ELSE /\ pc' = [pc EXCEPT ![t] = "sdi_err"]
                   /\ loc' = [loc EXCEPT ![t].res = Err("io")]
    /\ UNCHANGED <<boot, committed, last_id, device_map, dev, outer_w, outer_r, dev_w, dev_r,
                   hist, succeeded, removed, calls>>

\* io::copy(data, &mut file): the whole content is written, or the copy fails
io_copy(f, p, data) ==
    {[ok |-> FALSE, fs |-> f]} \cup
    (IF Exists(f, p) /\ ~IsDir(f, p)
        THEN {[ok |-> TRUE, fs |-> Put(f, p, data)]}
        ELSE {})

SdiCopy(t) ==
    /\ pc[t] = "sdi_copy"
    /\ \E r \in io_copy(fs, full_module_file_path(ModuleDir(t)), loc[t].file) :
        /\ fs' = r.fs
        /\ IF r.ok
              THEN /\ pc' = [pc EXCEPT ![t] = "sdi_insert"]
                   /\ loc' = loc
              ELSE /\ pc' = [pc EXCEPT ![t] = "sdi_err"]
                   /\ loc' = [loc EXCEPT ![t].res = Err("io")]
    /\ UNCHANGED <<boot, committed, last_id, device_map, dev, outer_w, outer_r, dev_w, dev_r,
                   hist, succeeded, removed, calls>>

DeviceInitData(t) ==
    [id |-> loc[t].id,
     module_file |-> full_module_file_path(ModuleDir(t)),
     data_dir |-> DataDir(t),
     full_data_dir |-> full_data_dir(DataDir(t)),
     module_dir |-> ModuleDir(t),
     init_state |-> "Device"]

\* a bug: the new device is registered as configured
NewDeviceConfigured(t) ==
    Device(loc[t].name, loc[t].display_name, ModuleDir(t), DataDir(t), "Sensors", <<>>)

NewDevice(t) ==
    Device(loc[t].name, loc[t].display_name, ModuleDir(t), DataDir(t), "Device", <<>>)

\* The insert under the write lock of device_map, and the return.
SdiInsert(t) ==
    /\ pc[t] = "sdi_insert"
    /\ CanWrite(outer_w, outer_r)
    /\ device_map' = device_map \cup {loc[t].id}
    /\ dev' = Put(dev, loc[t].id, NewDevice(t))
    /\ dev_w' = Put(dev_w, loc[t].id, 0)
    /\ dev_r' = Put(dev_r, loc[t].id, {})
    /\ pc' = [pc EXCEPT ![t] = "sdi_ok"]
    /\ loc' = [loc EXCEPT ![t].res =
                  [status |-> "ok", err |-> "none", data |-> DeviceInitData(t)]]
    /\ committed' = Put(committed, loc[t].id, NewDevice(t))
    /\ succeeded' = succeeded \cup {loc[t].id}
    /\ UNCHANGED <<boot, last_id, outer_w, outer_r, fs, hist, removed, calls>>

\* --------------------------------------------------- device_sensor_init
\* get_device: the lookup under a read lock of device_map
get_device(map, id) == id \in map

DeviceSensorInit(t, id, sensors) ==
    /\ pc[t] = "idle"
    /\ calls < MaxCalls
    /\ pc' = [pc EXCEPT ![t] = "dsi_get"]
    /\ loc' = [loc EXCEPT ![t] = [NoLoc EXCEPT !.op = "device_sensor_init",
                   !.id = id, !.sensors = sensors]]
    /\ calls' = calls + 1
    /\ UNCHANGED <<boot, committed, last_id, device_map, dev, outer_w, outer_r, dev_w, dev_r, fs,
                   hist, succeeded, removed>>

\* let device = self.get_device(device_id)?;
DsiGet(t) ==
    /\ pc[t] = "dsi_get"
    /\ CanRead(outer_w)
    /\ IF get_device(device_map, loc[t].id)
          THEN /\ pc' = [pc EXCEPT ![t] = "dsi_lock"]
               /\ loc' = loc
          ELSE /\ pc' = [pc EXCEPT ![t] = "dsi_err"]
               /\ loc' = [loc EXCEPT ![t].res = Err("DeviceNotFound")]
    /\ UNCHANGED <<boot, committed, last_id, device_map, dev, outer_w, outer_r, dev_w, dev_r, fs,
                   hist, succeeded, removed, calls>>

\* let mut device = device.write().unwrap();
DsiLock(t) ==
    /\ pc[t] = "dsi_lock"
    /\ CanWrite(dev_w[loc[t].id], dev_r[loc[t].id])
    /\ dev_w' = [dev_w EXCEPT ![loc[t].id] = t]
    /\ pc' = [pc EXCEPT ![t] = "dsi_insert"]
    /\ loc' = [loc EXCEPT ![t].i = 1,
                          ![t].pre = dev[loc[t].id].init_state,
                          ![t].pre_sensors = dev[loc[t].id].sensor_map]
    /\ UNCHANGED <<boot, committed, last_id, device_map, dev, outer_w, outer_r, dev_r, fs,
                   hist, succeeded, removed, calls>>

\* a bug: only the first sensor of a device is kept
sensor_map_insert_first(sensor_map, sensor) ==
    IF DOMAIN sensor_map = {} THEN Put(sensor_map, sensor.name, sensor) ELSE sensor_map

sensor_map_insert(sensor_map, sensor) == Put(sensor_map, sensor.name, sensor)

\* for sensor in sensors { device.sensor_map.insert(sensor.name.clone(), sensor); }
DsiInsert(t) ==
    /\ pc[t] = "dsi_insert"
    /\ IF loc[t].i <= Len(loc[t].sensors)
          THEN /\ pc' = pc
               /\ dev' = [dev EXCEPT ![loc[t].id].sensor_map =
                              sensor_map_insert(@, loc[t].sensors[loc[t].i])]
               /\ loc' = [loc EXCEPT ![t].i = @ + 1]
          ELSE /\ pc' = [pc EXCEPT ![t] = "dsi_state"]
               /\ UNCHANGED <<dev, loc>>
    /\ UNCHANGED <<boot, committed, last_id, device_map, outer_w, outer_r, dev_w, dev_r, fs,
                   hist, succeeded, removed, calls>>

\* a bug: the wrong variant is assigned
dsi_init_state_device(old) == "Device"

dsi_init_state(old) == "Sensors"

\* device.init_state = Sensors; Ok(()) -- the write guard is dropped
DsiState(t) ==
    /\ pc[t] = "dsi_state"
    /\ dev' = [dev EXCEPT ![loc[t].id].init_state = dsi_init_state(@)]
    /\ committed' = [committed EXCEPT ![loc[t].id] = dev'[loc[t].id]]
    /\ dev_w' = [dev_w EXCEPT ![loc[t].id] = 0]
    /\ pc' = [pc EXCEPT ![t] = "dsi_ok"]
    /\ loc' = [loc EXCEPT ![t].res = [NoRes EXCEPT !.status = "ok"]]
    /\ UNCHANGED <<boot, last_id, device_map, outer_w, outer_r, dev_r, fs,
                   hist, succeeded, removed, calls>>

\* -------------------------------------------------------- delete_device
DeleteDevice(t, id) ==
    /\ pc[t] = "idle"
    /\ calls < MaxCalls
    /\ pc' = [pc EXCEPT ![t] = "del_map"]
    /\ loc' = [loc EXCEPT ![t] = [NoLoc EXCEPT !.op = "delete_device", !.id = id]]
    /\ calls' = calls + 1
    /\ UNCHANGED <<boot, committed, last_id, device_map, dev, outer_w, outer_r, dev_w, dev_r, fs,
                   hist, succeeded, removed>>

\* let mut device_map = self.device_map.write().unwrap();
\* let device = device_map.get(id).ok_or(DeviceNotFound)?.clone();
DelMap(t) ==
    /\ pc[t] = "del_map"
    /\ CanWrite(outer_w, outer_r)
    /\ IF loc[t].id \in device_map
          THEN /\ outer_w' = t
               /\ pc' = [pc EXCEPT ![t] = "del_dev"]
               /\ loc' = loc
          ELSE /\ outer_w' = 0
               /\ pc' = [pc EXCEPT ![t] = "del_err"]
               /\ loc' = [loc EXCEPT ![t].res = Err("DeviceNotFound")]
    /\ UNCHANGED <<boot, committed, last_id, device_map, dev, outer_r, dev_w, dev_r, fs,
                   hist, succeeded, removed, calls>>

\* let device = device.write().unwrap(); then the await of remove_dir_all
DelDev(t) ==
    /\ pc[t] = "del_dev"
    /\ CanWrite(dev_w[loc[t].id], dev_r[loc[t].id])
    /\ dev_w' = [dev_w EXCEPT ![loc[t].id] = t]
    /\ pc' = [pc EXCEPT ![t] = "del_rm"]
    /\ loc' = [loc EXCEPT ![t].name = dev[loc[t].id].name]
    /\ UNCHANGED <<boot, committed, last_id, device_map, dev, outer_w, outer_r, dev_r, fs,
                   hist, succeeded, removed, calls>>

\* a bug: the entry is removed whatever remove_dir_all returned
map_remove_always(map, id, removed_ok) == map \ {id}

\* device_map.remove(id), reached only when remove_dir_all returned Ok
map_remove(map, id, removed_ok) == IF removed_ok THEN map \ {id} ELSE map

\* fs::remove_dir_all(device_dir).await?; device_map.remove(id); both guards
\* are dropped at the return.
DelRm(t) ==
    /\ pc[t] = "del_rm"
    /\ \E r \in remove_dir_all(fs, full_data_dir(DirName(t))) :
        /\ fs' = r.fs
        /\ device_map' = map_remove(device_map, loc[t].id, r.ok)
        /\ IF r.ok
              THEN /\ pc' = [pc EXCEPT ![t] = "del_ok"]
                   /\ loc' = [loc EXCEPT ![t].res = [NoRes EXCEPT !.status = "ok"]]
                   /\ removed' = removed \cup {loc[t].id}
              ELSE /\ pc' = [pc EXCEPT ![t] = "del_err"]
                   /\ loc' = [loc EXCEPT ![t].res = Err("io")]
                   /\ removed' = removed
    /\ outer_w' = 0
    /\ dev_w' = [dev_w EXCEPT ![loc[t].id] = 0]
    /\ UNCHANGED <<boot, committed, last_id, dev, outer_r, dev_r, hist, succeeded, calls>>

\* ------------------------------------------------- get_device_init_state
GetDeviceInitState(t, id) ==
    /\ pc[t] = "idle"
    /\ calls < MaxCalls
    /\ pc' = [pc EXCEPT ![t] = "gis_get"]
    /\ loc' = [loc EXCEPT ![t] = [NoLoc EXCEPT !.op = "get_device_init_state", !.id = id]]
    /\ calls' = calls + 1
    /\ UNCHANGED <<boot, committed, last_id, device_map, dev, outer_w, outer_r, dev_w, dev_r, fs,
                   hist, succeeded, removed>>

\* let device = self.get_device(&id)?;
GisGet(t) ==
    /\ pc[t] = "gis_get"
    /\ CanRead(outer_w)
    /\ IF get_device(device_map, loc[t].id)
          THEN /\ pc' = [pc EXCEPT ![t] = "gis_read"]
               /\ loc' = loc
          ELSE /\ pc' = [pc EXCEPT ![t] =
                            IF loc[t].op = "interrupt_device_init" THEN "idi_err" ELSE "gis_err"]
               /\ loc' = [loc EXCEPT ![t].res = Err("DeviceNotFound")]
    /\ UNCHANGED <<boot, committed, last_id, device_map, dev, outer_w, outer_r, dev_w, dev_r, fs,
                   hist, succeeded, removed, calls>>

\* a bug: the state of a fresh device is reported, not the device's
device_init_state_fresh(device) == "Device"

device_init_state(device) == device.init_state

\* let device = device.read().unwrap(); Ok(device.init_state.clone())
GisRead(t) ==
    /\ pc[t] = "gis_read"
    /\ CanRead(dev_w[loc[t].id])
    /\ pc' = [pc EXCEPT ![t] =
                 IF loc[t].op = "interrupt_device_init" THEN "idi_check" ELSE "gis_ok"]
    /\ loc' = [loc EXCEPT ![t].res = [NoRes EXCEPT !.status = "ok",
                   !.data.init_state = device_init_state(dev[loc[t].id])]]
    /\ UNCHANGED <<boot, committed, last_id, device_map, dev, outer_w, outer_r, dev_w, dev_r, fs,
                   hist, succeeded, removed, calls>>

\* ------------------------------------------------- interrupt_device_init
\* IService::interrupt_device_init: "It must ensure that device's init state
\* is `Device`. It must delete device's data from disk and storage."
InterruptDeviceInit(t, id) ==
    /\ pc[t] = "idle"
    /\ calls < MaxCalls
    /\ pc' = [pc EXCEPT ![t] = "gis_get"]
    /\ loc' = [loc EXCEPT ![t] = [NoLoc EXCEPT !.op = "interrupt_device_init", !.id = id,
                   !.pre = IF id \in device_map THEN dev[id].init_state ELSE "none"]]
    /\ calls' = calls + 1
    /\ UNCHANGED <<boot, committed, last_id, device_map, dev, outer_w, outer_r, dev_w, dev_r, fs,
                   hist, succeeded, removed>>

\* The state check; a device in state Device goes on to delete_device.
IdiCheck(t) ==
    /\ pc[t] = "idi_check"
    /\ IF loc[t].res.data.init_state = "Device"
          THEN /\ pc' = [pc EXCEPT ![t] = "del_map"]
               /\ loc' = [loc EXCEPT ![t].res = NoRes]
          ELSE /\ pc' = [pc EXCEPT ![t] = "idi_err"]
               /\ loc' = [loc EXCEPT ![t].res = Err("IllegalState")]
    /\ UNCHANGED <<boot, committed, last_id, device_map, dev, outer_w, outer_r, dev_w, dev_r, fs,
                   hist, succeeded, removed, calls>>

\* --------------------------------------------------------- get_device_ids
\* self.device_map.read().unwrap().keys().copied().collect()
get_device_ids == device_map

GetDeviceIds(t) ==
    /\ pc[t] = "idle"
    /\ calls < MaxCalls
    /\ CanRead(outer_w)
    /\ pc' = [pc EXCEPT ![t] = "ids_ok"]
    /\ loc' = [loc EXCEPT ![t] = [NoLoc EXCEPT !.op = "get_device_ids",
                   !.res = [NoRes EXCEPT !.status = "ok"], !.sensors = get_device_ids]]
    /\ calls' = calls + 1
    /\ UNCHANGED <<boot, committed, last_id, device_map, dev, outer_w, outer_r, dev_w, dev_r, fs,
                   hist, succeeded, removed>>

\* ------------------------------------------------ get_device_sensor_info
\* The device_sensor_init calls that hold the write lock of the device.
Writing(id) ==
    { u \in Tasks : pc[u] \in {"dsi_insert", "dsi_state"} /\ loc[u].id = id }

GetDeviceSensorInfo(t, device_id) ==
    /\ pc[t] = "idle"
    /\ calls < MaxCalls
    /\ pc' = [pc EXCEPT ![t] = "gsi_get"]
    /\ loc' = [loc EXCEPT ![t] = [NoLoc EXCEPT !.op = "get_device_sensor_info",
                                               !.id = device_id]]
    /\ calls' = calls + 1
    /\ UNCHANGED <<boot, committed, last_id, device_map, dev, outer_w, outer_r, dev_w, dev_r,
                   fs, hist, succeeded, removed>>

\* let device = self.get_device(&device_id)?;
GsiGet(t) ==
    /\ pc[t] = "gsi_get"
    /\ CanRead(outer_w)
    /\ IF get_device(device_map, loc[t].id)
          THEN /\ pc' = [pc EXCEPT ![t] = "gsi_read"]
               /\ loc' = [loc EXCEPT ![t].overlap = Writing(loc[t].id) # {}]
          ELSE /\ pc' = [pc EXCEPT ![t] = "gsi_err"]
               /\ loc' = [loc EXCEPT ![t].res = Err("DeviceNotFound")]
    /\ UNCHANGED <<boot, committed, last_id, device_map, dev, outer_w, outer_r, dev_w, dev_r,
                   fs, hist, succeeded, removed, calls>>

sensor_info_names(sensor_map) ==
    { [name |-> name, data |-> {}] : name \in DOMAIN sensor_map }

\* The Vec<SensorInfo> of a sensor map; neither level is sorted.
sensor_info(sensor_map) ==
    { [name |-> name,
       data |-> { [name |-> column, typ |-> sensor_map[name].data_map[column].typ] :
                     column \in DOMAIN sensor_map[name].data_map }] :
         name \in DOMAIN sensor_map }

\* let device = device.read().unwrap(); the init_state check; the list
GsiRead(t) ==
    /\ pc[t] = "gsi_read"
    /\ CanRead(dev_w[loc[t].id])
    /\ IF dev[loc[t].id].init_state # "Sensors"
          THEN /\ pc' = [pc EXCEPT ![t] = "gsi_err"]
               /\ loc' = [loc EXCEPT ![t].res = Err("DeviceNotConfigured")]
          ELSE /\ pc' = [pc EXCEPT ![t] = "gsi_ok"]
               /\ loc' = [loc EXCEPT ![t].res = [NoRes EXCEPT !.status = "ok"],
                                     ![t].out = sensor_info(dev[loc[t].id].sensor_map)]
    /\ UNCHANGED <<boot, committed, last_id, device_map, dev, outer_w, outer_r, dev_w, dev_r,
                   fs, hist, succeeded, removed, calls>>

\* ------------------------ get_device_info_list, get_init_data_all_devices
GetDeviceInfoList(t) ==
    /\ pc[t] = "idle"
    /\ calls < MaxCalls
    /\ pc' = [pc EXCEPT ![t] = "list_lock"]
    /\ loc' = [loc EXCEPT ![t] = [NoLoc EXCEPT !.op = "get_device_info_list"]]
    /\ calls' = calls + 1
    /\ UNCHANGED <<boot, committed, last_id, device_map, dev, outer_w, outer_r, dev_w, dev_r,
                   fs, hist, succeeded, removed>>

GetInitDataAllDevices(t) ==
    /\ pc[t] = "idle"
    /\ calls < MaxCalls
    /\ pc' = [pc EXCEPT ![t] = "list_lock"]
    /\ loc' = [loc EXCEPT ![t] = [NoLoc EXCEPT !.op = "get_init_data_all_devices"]]
    /\ calls' = calls + 1
    /\ UNCHANGED <<boot, committed, last_id, device_map, dev, outer_w, outer_r, dev_w, dev_r,
                   fs, hist, succeeded, removed>>

\* The orders in which device_map.iter() may yield the keys.
IterOrders(keys) ==
    { order \in [1..Cardinality(keys) -> keys] :
        \A i, j \in 1..Cardinality(keys) : i # j => order[i] # order[j] }

\* let device_map = self.device_map.read().unwrap(); the guard lives to the
\* end of the function. seen records the configured devices at this moment.
ListLock(t) ==
    /\ pc[t] = "list_lock"
    /\ CanRead(outer_w)
    /\ outer_r' = outer_r \cup {t}
    /\ pc' = [pc EXCEPT ![t] = "list_iter"]
    /\ \E order \in IterOrders(device_map) :
          loc' = [loc EXCEPT ![t].order = order,
                             ![t].seen = { id \in device_map :
                                             committed[id].init_state = "Sensors" }]
    /\ UNCHANGED <<boot, committed, last_id, device_map, dev, outer_w, dev_w, dev_r,
                   fs, hist, succeeded, removed, calls>>

DeviceInfo(id, data) == [id |-> id, display_name |-> data.display_name]

InitDataOf(id, data) ==
    [id |-> id, module_dir |-> data.module_dir, data_dir |-> data.data_dir,
     full_data_dir |-> full_data_dir(data.data_dir),
     module_file |-> full_module_file_path(data.module_dir),
     init_state |-> data.init_state]

\* a bug: the filter on init_state is missing
is_configured_any(data) == TRUE

\* if data.init_state == ctrl::DeviceInitState::Sensors
is_configured(data) == data.init_state = "Sensors"

\* One pass of the loop body: data_handler.read(), the push, the guard dropped.
ListRead(t) ==
    /\ pc[t] = "list_iter"
    /\ loc[t].order # <<>>
    /\ UNCHANGED <<boot, committed, last_id, device_map, dev, outer_w, outer_r, dev_w, dev_r,
                   fs, pc, hist, succeeded, removed, calls>>
    /\ LET id == Head(loc[t].order)
           data == dev[id]
       IN /\ CanRead(dev_w[id])
          /\ loc' = [loc EXCEPT ![t].order = Tail(@),
                                ![t].out =
                                    IF loc[t].op = "get_init_data_all_devices"
                                       THEN Append(@, InitDataOf(id, data))
                                       ELSE IF is_configured(data)
                                               THEN Append(@, DeviceInfo(id, data))
                                               ELSE @]

\* res is returned and the read guard of device_map is dropped.
ListDone(t) ==
    /\ pc[t] = "list_iter"
    /\ loc[t].order = <<>>
    /\ outer_r' = outer_r \ {t}
    /\ pc' = [pc EXCEPT ![t] = "list_ok"]
    /\ loc' = [loc EXCEPT ![t].res = [NoRes EXCEPT !.status = "ok"]]
    /\ UNCHANGED <<boot, committed, last_id, device_map, dev, outer_w, dev_w, dev_r,
                   fs, hist, succeeded, removed, calls>>

\* ------------------------------------------------------------ cancellation
\* A future dropped at an await: the blocking filesystem call it waits for
\* has been handed to the runtime and ends on its own, with any of its
\* outcomes; nothing after the await runs; the lock guards are dropped.
Suspended == {"sdi_dir", "sdi_module_dir", "sdi_data_dir", "sdi_open", "sdi_create",
              "sdi_copy", "del_rm"}

Pending(t) ==
    CASE pc[t] = "sdi_dir" -> create_dir(fs, full_data_dir(DirName(t)))
      [] pc[t] = "sdi_module_dir" -> create_dir(fs, full_data_dir(ModuleDir(t)))
      [] pc[t] = "sdi_data_dir" -> create_dir(fs, full_data_dir(DataDir(t)))
      [] pc[t] = "sdi_open" -> {[ok |-> TRUE, fs |-> fs]}
      [] pc[t] = "sdi_create" -> file_create(fs, full_module_file_path(ModuleDir(t)))
      [] pc[t] = "sdi_copy" ->
            io_copy(fs, full_module_file_path(ModuleDir(t)), loc[t].file)
      [] pc[t] = "del_rm" -> remove_dir_all(fs, full_data_dir(DirName(t)))

Cancel(t) ==
    /\ pc[t] \in Suspended
    /\ \E r \in Pending(t) : fs' = r.fs
    /\ outer_w' = IF outer_w = t THEN 0 ELSE outer_w
    /\ dev_w' = [id \in DOMAIN dev_w |-> IF dev_w[id] = t THEN 0 ELSE dev_w[id]]
    /\ pc' = [pc EXCEPT ![t] = "cancelled"]
    /\ UNCHANGED <<boot, committed, last_id, device_map, dev, outer_r, dev_r, loc,
                   hist, succeeded, removed, calls>>

\* ------------------------------------------------------------------ return
Returned == {"sdi_ok", "sdi_err", "dsi_ok", "dsi_err", "del_ok", "del_err",
             "gis_ok", "gis_err", "idi_err", "ids_ok", "gsi_ok", "gsi_err", "list_ok",
             "cancelled"}

Return(t) ==
    /\ pc[t] \in Returned
    /\ pc' = [pc EXCEPT ![t] = "idle"]
    /\ loc' = [loc EXCEPT ![t] = NoLoc]
    /\ UNCHANGED <<boot, committed, last_id, device_map, dev, outer_w, outer_r, dev_w, dev_r, fs,
                   hist, succeeded, removed, calls>>

\* ------------------------------------------------------------------- spec
Ids == 1..MaxId

\* Every request runs to its return.
NextRun ==
    \/ \E t \in Tasks, name \in Names, file \in ModuleFiles : StartDeviceInit(t, name, file)
    \/ \E t \in Tasks : SdiDir(t)
    \/ \E t \in Tasks : SdiModuleDir(t)
    \/ \E t \in Tasks : SdiDataDir(t)
    \/ \E t \in Tasks : SdiOpen(t)
    \/ \E t \in Tasks : SdiCreate(t)
    \/ \E t \in Tasks : SdiCopy(t)
    \/ \E t \in Tasks : SdiInsert(t)
    \/ \E t \in Tasks, id \in Ids, sensors \in SensorVecs : DeviceSensorInit(t, id, sensors)
    \/ \E t \in Tasks : DsiGet(t)
    \/ \E t \in Tasks : DsiLock(t)
    \/ \E t \in Tasks : DsiInsert(t)
    \/ \E t \in Tasks : DsiState(t)
    \/ \E t \in Tasks, id \in Ids : DeleteDevice(t, id)
    \/ \E t \in Tasks : DelMap(t)
    \/ \E t \in Tasks : DelDev(t)
    \/ \E t \in Tasks : DelRm(t)
    \/ \E t \in Tasks, id \in Ids : GetDeviceInitState(t, id)
    \/ \E t \in Tasks : GisGet(t)
    \/ \E t \in Tasks : GisRead(t)
    \/ \E t \in Tasks, id \in Ids : InterruptDeviceInit(t, id)
    \/ \E t \in Tasks : IdiCheck(t)
    \/ \E t \in Tasks : GetDeviceIds(t)
    \/ \E t \in Tasks : Return(t)

\* Requests may also be dropped at an await.
Next ==
    \/ NextRun
    \/ \E t \in Tasks : Cancel(t)

Spec == Init /\ [][Next]_vars

SpecRun == Init /\ [][NextRun]_vars

\* The service booted on an empty database.
InitEmpty == Init /\ device_map = {}

SpecEmpty == InitEmpty /\ [][Next]_vars

\* ---------------------------------------------------------------- boot
\* main before DeviceManager::new has run: the rows are in the database, the
\* directories of the devices are on disk, no request is served yet.
UdtNames ==
    {"int2", "int4", "int8", "float4", "float8", "timestamp", "text", "jsonb",
     "uuid", "varchar", "INT4"}

UdtPairs == {"int4", "uuid"}

ColumnType(table_name, column_name, udt_name) ==
    [table_name |-> table_name, column_name |-> column_name, udt_name |-> udt_name]

DeviceSensor(device_id, sensor_name, sensor_table_name) ==
    [device_id |-> device_id, sensor_name |-> sensor_name,
     sensor_table_name |-> sensor_table_name]

\* Device ids are a primary key: at most one row per id, in any order.
BootRowIds == 1..(MaxId - 1)

BootDeviceRows ==
    { DeviceRow(id, <<"a">>, st) : id \in BootRowIds, st \in {"DEVICE", "SENSORS"} }

BootDevices ==
    {<<>>} \cup { <<r>> : r \in BootDeviceRows }
           \cup { p \in { <<r, q>> : r \in BootDeviceRows, q \in BootDeviceRows } :
                      p[1].id # p[2].id }

BootDeviceSensors ==
    { <<>>,
      << DeviceSensor(1, "s1", "t1") >>,
      << DeviceSensor(1, "s1", "t1"), DeviceSensor(2, "s2", "t1") >> }

BootSensorTypes ==
    {<<>>} \cup { << ColumnType("t1", "f1", u) >> : u \in UdtNames }
           \cup { << ColumnType("t1", "f1", u), ColumnType("t2", "f2", v) >> :
                      u \in UdtPairs, v \in UdtPairs }

BootRows ==
    [devices : BootDevices, device_sensors : BootDeviceSensors,
     sensor_types : BootSensorTypes]

NotBooted == [ok |-> FALSE, err |-> "none"]

InitBoot ==
    \E rows \in BootRows :
        /\ boot = [input |-> rows, done |-> FALSE, res |-> NotBooted]
        /\ committed = <<>>
        /\ last_id = 0
        /\ device_map = {}
        /\ dev = <<>>
        /\ outer_w = 0
        /\ outer_r = {}
        /\ dev_w = <<>>
        /\ dev_r = <<>>
        /\ fs = BootFs(rows.devices)
        /\ pc = [t \in Tasks |-> "down"]
        /\ loc = [t \in Tasks |-> NoLoc]
        /\ hist = <<>>
        /\ succeeded = {}
        /\ removed = {}
        /\ calls = 0

\* DeviceManager::new on the rows; on an error main logs it and exits, and
\* no request is ever served.
DeviceManagerNew ==
    /\ ~boot.done
    /\ LET m == New(boot.input.devices, boot.input.device_sensors, boot.input.sensor_types)
       IN /\ boot' = [boot EXCEPT !.done = TRUE, !.res = m]
          /\ IF m.ok
                THEN /\ last_id' = m.last_id
                     /\ device_map' = DOMAIN m.device_map
                     /\ dev' = m.device_map
                     /\ committed' = m.device_map
                     /\ dev_w' = [id \in DOMAIN m.device_map |-> 0]
                     /\ dev_r' = [id \in DOMAIN m.device_map |-> {}]
                     /\ pc' = [t \in Tasks |-> "idle"]
                ELSE UNCHANGED <<last_id, device_map, dev, committed, dev_w, dev_r, pc>>
    /\ UNCHANGED <<outer_w, outer_r, fs, loc, hist, succeeded, removed, calls>>

NextBoot ==
    \/ DeviceManagerNew
    \/ \E t \in Tasks, name \in Names, file \in ModuleFiles : StartDeviceInit(t, name, file)

SpecBoot == InitBoot /\ [][NextBoot]_vars

\* -------------------------------------------------------------- readers
\* The readers of the registry next to the operations on registered devices.
NextRead ==
    \/ \E t \in Tasks, id \in Ids, sensors \in SensorVecs : DeviceSensorInit(t, id, sensors)
    \/ \E t \in Tasks : DsiGet(t)
    \/ \E t \in Tasks : DsiLock(t)
    \/ \E t \in Tasks : DsiInsert(t)
    \/ \E t \in Tasks : DsiState(t)
    \/ \E t \in Tasks, id \in Ids : DeleteDevice(t, id)
    \/ \E t \in Tasks : DelMap(t)
    \/ \E t \in Tasks : DelDev(t)
    \/ \E t \in Tasks : DelRm(t)
    \/ \E t \in Tasks, id \in Ids : GetDeviceInitState(t, id)
    \/ \E t \in Tasks : GisGet(t)
    \/ \E t \in Tasks : GisRead(t)
    \/ \E t \in Tasks, id \in Ids : GetDeviceSensorInfo(t, id)
    \/ \E t \in Tasks : GsiGet(t)
    \/ \E t \in Tasks : GsiRead(t)
    \/ \E t \in Tasks : GetDeviceInfoList(t)
    \/ \E t \in Tasks : GetInitDataAllDevices(t)
    \/ \E t \in Tasks : ListLock(t)
    \/ \E t \in Tasks : ListRead(t)
    \/ \E t \in Tasks : ListDone(t)
    \/ \E t \in Tasks : GetDeviceIds(t)
    \/ \E t \in Tasks : Return(t)

SpecRead == Init /\ [][NextRead]_vars

\* ------------------------------------------------------ worker threads
\* The locks are std::sync::RwLock: a request that finds one taken waits by
\* blocking the thread that polls it.  The handlers are polled by the worker
\* threads of the web server, several requests per thread, and a request
\* suspended at an await with a lock guard in hand resumes on the thread it
\* was started on (the guards of std::sync::RwLock are not Send).

\* The lock acquisitions a request makes first when it is polled.
FirstLock == {"dsi_get", "gis_get", "gsi_get", "list_lock", "del_map", "sdi_insert"}

\* Request t is polled on the worker thread of the request that holds the
\* registry lock over its await: the thread blocks in read() or write().
Park(t) ==
    /\ pc[t] \in FirstLock
    /\ outer_w \notin {0, t}
    /\ pc[outer_w] \in Suspended
    /\ pc' = [pc EXCEPT ![t] = "parked"]
    /\ UNCHANGED <<boot, committed, last_id, device_map, dev, outer_w, outer_r, dev_w, dev_r,
                   fs, hist, succeeded, removed, calls, loc>>

\* The thread of request t is not blocked by a request parked on it.
Runs(t) ==
    /\ pc[t] # "parked"
    /\ ~(outer_w = t /\ pc[t] \in Suspended /\ \E u \in Tasks : pc[u] = "parked")

\* The steps of a started request.
Step(t) ==
    \/ SdiDir(t)
    \/ SdiModuleDir(t)
    \/ SdiDataDir(t)
    \/ SdiOpen(t)
    \/ SdiCreate(t)
    \/ SdiCopy(t)
    \/ SdiInsert(t)
    \/ DsiGet(t)
    \/ DsiLock(t)
    \/ DsiInsert(t)
    \/ DsiState(t)
    \/ DelMap(t)
    \/ DelDev(t)
    \/ DelRm(t)
    \/ GisGet(t)
    \/ GisRead(t)
    \/ GsiGet(t)
    \/ GsiRead(t)
    \/ ListLock(t)
    \/ ListRead(t)
    \/ ListDone(t)

NextWorker ==
    \/ \E t \in Tasks, name \in Names, file \in ModuleFiles : StartDeviceInit(t, name, file)
    \/ \E t \in Tasks, id \in Ids, sensors \in SensorVecs : DeviceSensorInit(t, id, sensors)
    \/ \E t \in Tasks, id \in Ids : DeleteDevice(t, id)
    \/ \E t \in Tasks, id \in Ids : GetDeviceInitState(t, id)
    \/ \E t \in Tasks, id \in Ids : GetDeviceSensorInfo(t, id)
    \/ \E t \in Tasks : GetDeviceInfoList(t)
    \/ \E t \in Tasks : GetInitDataAllDevices(t)
    \/ \E t \in Tasks : Runs(t) /\ Step(t)
    \/ \E t \in Tasks : Park(t)
    \/ \E t \in Tasks : Return(t)

\* Where every request stands: each step moves a request on, advances its
\* index or shortens the list it iterates.
position == <<pc, [t \in Tasks |-> <<loc[t].i, Len(loc[t].order)>>]>>

\* Filesystem operations return and a thread that is not blocked goes on
\* polling its requests.
SpecWorker ==
    Init /\ [][NextWorker]_vars /\ \A t \in Tasks : WF_position(Runs(t) /\ Step(t))

\* ------------------------------------------------- boot, directories lost
\* The service booted from rows of devices some of whose directories are no
\* longer on disk: DeviceManager::new reads the rows and not the disk.
InitLost ==
    \E rows \in BootInputs, lost \in SUBSET Ids :
        LET m == New(rows.devices, rows.device_sensors, rows.sensor_types)
            gone == { p \in DOMAIN BootFs(rows.devices) :
                        \E i \in 1..Len(rows.devices) :
                            /\ rows.devices[i].id \in lost
                            /\ IsPrefix(full_data_dir(build_device_dir_name(
                                            rows.devices[i].id, rows.devices[i].name)), p) }
        IN
        /\ m.ok
        /\ lost \subseteq DOMAIN m.device_map
        /\ boot = [input |-> rows, done |-> TRUE, res |-> m]
        /\ committed = m.device_map
        /\ last_id = m.last_id
        /\ device_map = DOMAIN m.device_map
        /\ dev = m.device_map
        /\ outer_w = 0
        /\ outer_r = {}
        /\ dev_w = [id \in DOMAIN m.device_map |-> 0]
        /\ dev_r = [id \in DOMAIN m.device_map |-> {}]
        /\ fs = Drop(BootFs(rows.devices), gone)
        /\ pc = [t \in Tasks |-> "idle"]
        /\ loc = [t \in Tasks |-> NoLoc]
        /\ hist = <<>>
        /\ succeeded = {}
        /\ removed = {}
        /\ calls = 0

SpecLost == InitLost /\ [][NextRead]_vars

\* ----------------------------------------------------------- create_file
\* create_file(path, data) on its own: the directories of the device are
\* there, the file at path may be there already, and a second call may be
\* writing other data to the same path.
EmptyRows == [devices |-> <<>>, device_sensors |-> <<>>, sensor_types |-> <<>>]

InitFile ==
    \E id \in Ids, name \in Names, old \in {"none", "old"}, second \in BOOLEAN :
        LET tree == DeviceTree(id, name, "old")
            path == full_module_file_path(build_device_dir_name(id, name)
                                             \o << <<"module">> >>)
            disk == [p \in {data_dir} \cup DOMAIN tree |->
                        IF p = data_dir THEN "dir" ELSE tree[p]]
            call(file) == [NoLoc EXCEPT !.op = "create_file", !.id = id, !.name = name,
                                        !.file = file]
        IN
        /\ fs = IF old = "none" THEN Drop(disk, {path}) ELSE disk
        /\ pc = [t \in Tasks |-> IF t = 1 \/ second THEN "sdi_open" ELSE "idle"]
        /\ loc = [t \in Tasks |-> IF t = 1 THEN call("m1")
                                  ELSE IF second THEN call("m2") ELSE NoLoc]
        /\ boot = [input |-> EmptyRows, done |-> TRUE, res |-> New(<<>>, <<>>, <<>>)]
        /\ committed = <<>>
        /\ last_id = 0
        /\ device_map = {}
        /\ dev = <<>>
        /\ outer_w = 0
        /\ outer_r = {}
        /\ dev_w = <<>>
        /\ dev_r = <<>>
        /\ hist = <<>>
        /\ succeeded = {}
        /\ removed = {}
        /\ calls = 0

NextFile ==
    \/ \E t \in Tasks : SdiOpen(t)
    \/ \E t \in Tasks : SdiCreate(t)
    \/ \E t \in Tasks : SdiCopy(t)

SpecFile == InitFile /\ [][NextFile]_vars

\* ------------------------------------------------------ driver boundary
\* The functions of module/model.rs that stand between a driver and the
\* service: the status byte of an entry point and the three out-parameter
\* callbacks.  A call is drawn in the initial state and applied by an action.
U8Max == 255

\* a bug: the arm for 2 is missing
convert_com_error_two(err) ==
    CASE err = 0 -> [status |-> "ok", err |-> "none"]
      [] err = 1 -> [status |-> "err", err |-> "ConnectionError"]
      [] OTHER -> [status |-> "err", err |-> "Unknown"]

convert_com_error(err) ==
    CASE err = 0 -> [status |-> "ok", err |-> "none"]
      [] err = 1 -> [status |-> "err", err |-> "ConnectionError"]
      [] err = 2 -> [status |-> "err", err |-> "InvalidArgument"]
      [] OTHER -> [status |-> "err", err |-> "Unknown"]

ConvertComError(t) ==
    /\ pc[t] = "drv_call"
    /\ loc[t].op = "convert_com_error"
    /\ pc' = [pc EXCEPT ![t] = "drv_ret"]
    /\ loc' = [loc EXCEPT ![t].out = convert_com_error(loc[t].i)]
    /\ UNCHANGED <<boot, committed, last_id, device_map, dev, outer_w, outer_r, dev_w, dev_r,
                   fs, hist, succeeded, removed, calls>>

\* A C pointer is a sequence: empty when nil, else holding its pointee; an
\* array behind a pointer is a sequence behind the pointer.
Nil == <<>>

Ptr(v) == <<v>>

IsNull(p) == Len(p) = 0

InvalidPointer(path) ==
    [status |-> "err", err |-> "InvalidPointer", path |-> path, value |-> <<>>]

OkOf(v) == [status |-> "ok", err |-> "none", path |-> "", value |-> v]

\* A nil or dangling pointer was dereferenced: undefined behaviour.  The
\* build either faults or goes on with whatever it read.
Undefined == [status |-> "ub", err |-> "none", path |-> "", value |-> <<>>]

Outcomes(r) ==
    IF r.status = "ub"
       THEN { [status |-> "crash", err |-> "none", path |-> "", value |-> <<>>],
              OkOf(<<"garbage">>) }
       ELSE {r}

\* device_connect_info: the loop over connection_params
RECURSIVE conn_params(_, _)
conn_params(params, device_connect_info_) ==
    IF params = <<>> THEN OkOf(device_connect_info_)
    ELSE LET param == Head(params) IN
         IF IsNull(param.name)
            THEN InvalidPointer("device_connect_info.connection_params[i].name")
            ELSE IF param.typ = "ConnParamChoiceList"
                    THEN IF IsNull(param.info) \/ IsNull(param.info[1].choices)
                            THEN Undefined
                            ELSE conn_params(Tail(params),
                                     Append(device_connect_info_,
                                         [name |-> param.name[1], typ |-> param.typ,
                                          info |-> param.info[1].choices]))
                    ELSE conn_params(Tail(params),
                             Append(device_connect_info_,
                                 [name |-> param.name[1], typ |-> param.typ, info |-> <<>>]))

device_connect_info(info) ==
    IF IsNull(info) THEN InvalidPointer("device_connect_info")
    ELSE IF IsNull(info[1].connection_params)
            THEN InvalidPointer("device_connect_info.connection_params")
            ELSE conn_params(info[1].connection_params[1], <<>>)

\* build_device_conf_info and build_device_conf_info_entry_data call each
\* other; `?` hands an error up unchanged.
RECURSIVE build_device_conf_info(_)
RECURSIVE build_device_conf_info_entry_data(_)
RECURSIVE conf_entries(_, _)
conf_entries(confs, res) ==
    IF confs = <<>> THEN OkOf(res)
    ELSE LET conf == Head(confs)
             data == build_device_conf_info_entry_data(conf)
         IN IF data.status # "ok" THEN data
            ELSE conf_entries(Tail(confs),
                     Append(res, [id |-> conf.id, typ |-> conf.typ, data |-> data.value]))

build_device_conf_info(info) ==
    IF IsNull(info) THEN Undefined
    ELSE IF IsNull(info[1].device_confs)
            THEN InvalidPointer("device_conf_info.device_confs")
            ELSE conf_entries(info[1].device_confs[1], <<>>)

build_device_conf_info_entry_data(conf) ==
    CASE conf.typ = "DeviceConfInfoEntryTypeSection" -> build_device_conf_info(conf.data)
      [] conf.typ = "DeviceConfInfoEntryTypeChoiceList" ->
            IF IsNull(conf.data) \/ IsNull(conf.data[1].choices)
               THEN Undefined
               ELSE OkOf(<<conf.data[1].required, conf.data[1].choices[1]>>)
      [] OTHER ->
            IF IsNull(conf.data) THEN Undefined ELSE OkOf(<<conf.data[1].required>>)

device_conf_info(info) ==
    IF IsNull(info) THEN InvalidPointer("device_conf") ELSE build_device_conf_info(info)

RECURSIVE sensor_infos(_, _)
sensor_infos(infos_slice, res_infos) ==
    IF infos_slice = <<>> THEN OkOf(res_infos)
    ELSE LET info == Head(infos_slice) IN
         IF IsNull(info.data_type_infos) THEN Undefined
         ELSE sensor_infos(Tail(infos_slice),
                  Append(res_infos,
                      [name |-> info.name[1],
                       data_map |-> { [name |-> info.data_type_infos[1][k].name[1],
                                       typ |-> info.data_type_infos[1][k].typ] :
                                         k \in 1..Len(info.data_type_infos[1]) }]))

bg_sensor_type_infos_to_sensor_vec(infos) ==
    IF IsNull(infos[1].sensor_type_infos) THEN Undefined
    ELSE sensor_infos(infos[1].sensor_type_infos[1], <<>>)

sensor_type_infos(infos) ==
    IF IsNull(infos) THEN InvalidPointer("device_conf")
    ELSE bg_sensor_type_infos_to_sensor_vec(infos)

\* extern "C" fn device_info_callback(obj, info)
DeviceInfoCallback(t) ==
    /\ pc[t] = "drv_call"
    /\ loc[t].op = "device_info_callback"
    /\ pc' = [pc EXCEPT ![t] = "drv_ret"]
    /\ \E r \in Outcomes(device_connect_info(loc[t].arg)) : loc' = [loc EXCEPT ![t].out = r]
    /\ UNCHANGED <<boot, committed, last_id, device_map, dev, outer_w, outer_r, dev_w, dev_r,
                   fs, hist, succeeded, removed, calls>>

\* extern "C" fn device_conf_info_callback(obj, info)
DeviceConfInfoCallback(t) ==
    /\ pc[t] = "drv_call"
    /\ loc[t].op = "device_conf_info_callback"
    /\ pc' = [pc EXCEPT ![t] = "drv_ret"]
    /\ \E r \in Outcomes(device_conf_info(loc[t].arg)) : loc' = [loc EXCEPT ![t].out = r]
    /\ UNCHANGED <<boot, committed, last_id, device_map, dev, outer_w, outer_r, dev_w, dev_r,
                   fs, hist, succeeded, removed, calls>>

\* extern "C" fn sensor_type_infos_callback(obj, infos)
SensorTypeInfosCallback(t) ==
    /\ pc[t] = "drv_call"
    /\ loc[t].op = "sensor_type_infos_callback"
    /\ pc' = [pc EXCEPT ![t] = "drv_ret"]
    /\ \E r \in Outcomes(sensor_type_infos(loc[t].arg)) : loc' = [loc EXCEPT ![t].out = r]
    /\ UNCHANGED <<boot, committed, last_id, device_map, dev, outer_w, outer_r, dev_w, dev_r,
                   fs, hist, succeeded, removed, calls>>

\* The calls.  nil is the path of the first nil pointer the driver handed
\* over where a pointee is needed, "" when there is none.
DriverCall(op, arg, nil) == [NoLoc EXCEPT !.op = op, !.arg = arg, !.nil = nil]

ComCalls ==
    { [NoLoc EXCEPT !.op = "convert_com_error", !.i = b] : b \in 0..U8Max }

ConnParam(name, typ, info) == [name |-> name, typ |-> typ, info |-> info]

ConnectInfo(params) == Ptr([connection_params |-> params])

ConnectCalls ==
    LET good == ConnParam(Ptr("p"), "ConnParamString", Nil)
        unnamed == ConnParam(Nil, "ConnParamString", Nil)
        list(info) == ConnParam(Ptr("p"), "ConnParamChoiceList", info)
        call(arg, nil) == DriverCall("device_info_callback", arg, nil)
    IN { call(Nil, "device_connect_info"),
         call(ConnectInfo(Nil), "device_connect_info.connection_params"),
         call(ConnectInfo(Ptr(<<good>>)), ""),
         call(ConnectInfo(Ptr(<<unnamed>>)), "device_connect_info.connection_params[i].name"),
         call(ConnectInfo(Ptr(<<good, unnamed>>)),
              "device_connect_info.connection_params[i].name"),
         call(ConnectInfo(Ptr(<<list(Ptr([choices |-> Ptr(<<"c">>)]))>>)), ""),
         call(ConnectInfo(Ptr(<<list(Nil)>>)),
              "device_connect_info.connection_params[i].info"),
         call(ConnectInfo(Ptr(<<list(Ptr([choices |-> Nil]))>>)),
              "device_connect_info.connection_params[i].info.choices") }

\* What conf.data points to: a DeviceConfInfo for a section, the entry's
\* description otherwise.
ConfData(required, choices, device_confs) ==
    [required |-> required, choices |-> choices, device_confs |-> device_confs]

ConfEntry(typ, data) == [id |-> 1, name |-> Ptr("n"), typ |-> typ, data |-> data]

ConfCalls ==
    LET str(data) == ConfEntry("DeviceConfInfoEntryTypeString", data)
        section(data) == ConfEntry("DeviceConfInfoEntryTypeSection", data)
        choice(data) == ConfEntry("DeviceConfInfoEntryTypeChoiceList", data)
        leaf == Ptr(ConfData(TRUE, Ptr(<<"c">>), Nil))
        info(confs) == Ptr(ConfData(FALSE, Nil, confs))
        call(arg, nil) == DriverCall("device_conf_info_callback", arg, nil)
    IN { call(Nil, "device_conf"),
         call(info(Nil), "device_conf_info.device_confs"),
         call(info(Ptr(<<str(leaf)>>)), ""),
         call(info(Ptr(<<str(leaf), choice(leaf)>>)), ""),
         call(info(Ptr(<<str(Nil)>>)), "device_conf_info.device_confs[i].data"),
         call(info(Ptr(<<str(leaf), choice(Nil)>>)), "device_conf_info.device_confs[i].data"),
         call(info(Ptr(<<choice(Ptr(ConfData(TRUE, Nil, Nil)))>>)),
              "device_conf_info.device_confs[i].data.choices"),
         call(info(Ptr(<<section(Nil)>>)), "device_conf_info.device_confs[i].data"),
         call(info(Ptr(<<section(info(Nil))>>)), "device_conf_info.device_confs") }

SensorTypeInfo(data_type_infos) == [name |-> Ptr("s"), data_type_infos |-> data_type_infos]

SensorCalls ==
    LET field == [name |-> Ptr("f"), typ |-> "Int32"]
        infos(list) == Ptr([sensor_type_infos |-> list])
        call(arg, nil) == DriverCall("sensor_type_infos_callback", arg, nil)
    IN { call(Nil, "sensor_type_infos"),
         call(infos(Nil), "sensor_type_infos.sensor_type_infos"),
         call(infos(Ptr(<<SensorTypeInfo(Ptr(<<field>>))>>)), ""),
         call(infos(Ptr(<<SensorTypeInfo(Ptr(<<field>>)), SensorTypeInfo(Nil)>>)),
              "sensor_type_infos.sensor_type_infos[i].data_type_infos") }

InitDriver ==
    \E t \in Tasks :
        /\ pc = [u \in Tasks |-> IF u = t THEN "drv_call" ELSE "idle"]
        /\ \/ \E c \in ComCalls : loc = [u \in Tasks |-> IF u = t THEN c ELSE NoLoc]
           \/ \E c \in ConnectCalls : loc = [u \in Tasks |-> IF u = t THEN c ELSE NoLoc]
           \/ \E c \in ConfCalls : loc = [u \in Tasks |-> IF u = t THEN c ELSE NoLoc]
           \/ \E c \in SensorCalls : loc = [u \in Tasks |-> IF u = t THEN c ELSE NoLoc]
        /\ fs = [p \in {data_dir} |-> "dir"]
        /\ boot = [input |-> EmptyRows, done |-> TRUE, res |-> New(<<>>, <<>>, <<>>)]
        /\ committed = <<>>
        /\ last_id = 0
        /\ device_map = {}
        /\ dev = <<>>
        /\ outer_w = 0
        /\ outer_r = {}
        /\ dev_w = <<>>
        /\ dev_r = <<>>
        /\ hist = <<>>
        /\ succeeded = {}
        /\ removed = {}
        /\ calls = 0

NextDriver ==
    \/ \E t \in Tasks : ConvertComError(t)
    \/ \E t \in Tasks : DeviceInfoCallback(t)
    \/ \E t \in Tasks : DeviceConfInfoCallback(t)
    \/ \E t \in Tasks : SensorTypeInfosCallback(t)

SpecDriver == InitDriver /\ [][NextDriver]_vars

\* ------------------------------------------------- database and web models
\* The conversions of service/db_model.rs and webserver/model/contract.rs and
\* the handlers of webserver/controller/service.rs.  None of them touches the
\* device manager.
NoManager ==
    /\ fs = [p \in {data_dir} |-> "dir"]
    /\ boot = [input |-> EmptyRows, done |-> TRUE, res |-> New(<<>>, <<>>, <<>>)]
    /\ committed = <<>>
    /\ last_id = 0
    /\ device_map = {}
    /\ dev = <<>>
    /\ outer_w = 0
    /\ outer_r = {}
    /\ dev_w = <<>>
    /\ dev_r = <<>>
    /\ hist = <<>>
    /\ succeeded = {}
    /\ removed = {}
    /\ calls = 0

Opt(S) == {<<>>} \cup { <<x>> : x \in S }

\* The statement builder: the predicates of its WHERE, its LIMIT and its
\* ORDER BY.  A predicate is its SQL text, with "?" where an argument is
\* bound, and its bound arguments.
whereq(b, sq) == [b EXCEPT !.where = Append(@, sq)]

gt(col, val) == [sql |-> <<col, ">", "?">>, args |-> <<val>>]

lt(col, val) == [sql |-> <<col, "<", "?">>, args |-> <<val>>]

eq(col, val) == [sql |-> <<col, "=", "?">>, args |-> <<val>>]

limit(b, v) == [b EXCEPT !.limit = <<v>>]

order(b, v) == [b EXCEPT !.order = <<v>>]

\* impl ToString for SortDir
SortDirToString(v) ==
    CASE v = "SortDir::ASC" -> "ASC"
      [] v = "SortDir::DESC" -> "DESC"

\* Sort::apply
SortApply(self, b) == order(b, self.field \o " " \o SortDirToString(self.order))

SensorDataFilterApplySwapped(self, b) ==
    LET b1 == IF self.from # <<>> THEN whereq(b, lt(self.from[1][1], self.from[1][2])) ELSE b
        b2 == IF self.to # <<>> THEN whereq(b1, gt(self.to[1][1], self.to[1][2])) ELSE b1
        b3 == IF self.limit # <<>> THEN limit(b2, self.limit[1]) ELSE b2
    IN IF self.sort # <<>> THEN SortApply(self.sort[1], b3) ELSE b3

\* SensorDataFilter::apply
SensorDataFilterApply(self, b) ==
    LET b1 == IF self.from # <<>> THEN whereq(b, gt(self.from[1][1], self.from[1][2])) ELSE b
        b2 == IF self.to # <<>> THEN whereq(b1, lt(self.to[1][1], self.to[1][2])) ELSE b1
        b3 == IF self.limit # <<>> THEN limit(b2, self.limit[1]) ELSE b2
    IN IF self.sort # <<>> THEN SortApply(self.sort[1], b3) ELSE b3

FilterApply(t) ==
    /\ pc[t] = "api_call"
    /\ loc[t].op = "SensorDataFilter::apply"
    /\ pc' = [pc EXCEPT ![t] = "api_ret"]
    /\ loc' = [loc EXCEPT ![t].out = SensorDataFilterApply(loc[t].arg.filter, loc[t].arg.b)]
    /\ UNCHANGED <<boot, committed, last_id, device_map, dev, outer_w, outer_r, dev_w, dev_r,
                   fs, hist, succeeded, removed, calls>>

Columns == {"ts", "v"}

Values == {1, 2}

Filters ==
    [from : Opt(Columns \X Values), to : Opt(Columns \X Values), limit : Opt({0, 10}),
     sort : Opt([field : Columns, order : {"SortDir::ASC", "SortDir::DESC"}])]

\* The builder a filter is applied to: a fresh one, or one that already has
\* a predicate.
Builders ==
    { [where |-> w, limit |-> <<>>, order |-> <<>>] : w \in {<<>>, <<eq("device_id", 1)>>} }

FilterCalls ==
    { [NoLoc EXCEPT !.op = "SensorDataFilter::apply", !.arg = [filter |-> f, b |-> b]] :
        f \in Filters, b \in Builders }

\* impl From<ctrl::SortDir> for SortDir
SortDirToDb(v) ==
    CASE v = "ctrl::SortDir::ASC" -> "SortDir::ASC"
      [] v = "ctrl::SortDir::DESC" -> "SortDir::DESC"

\* impl From<SortDir> for ctrl::SortDir
SortDirToCtrl(v) ==
    CASE v = "SortDir::ASC" -> "ctrl::SortDir::ASC"
      [] v = "SortDir::DESC" -> "ctrl::SortDir::DESC"

\* impl From<ctrl::MonitorTypeConf> for MonitorTypeConf
MonitorTypeConfToDb(v) ==
    CASE v.variant = "ctrl::MonitorTypeConf::Log" ->
            [variant |-> "MonitorTypeConf::Log", fields |-> v.fields,
             sort_field |-> v.sort_field,
             sort_direction |-> SortDirToDb(v.sort_direction), limit |-> v.limit]
      [] v.variant = "ctrl::MonitorTypeConf::Line" ->
            [variant |-> "MonitorTypeConf::Line", x_field |-> v.x_field,
             y_field |-> v.y_field, limit |-> v.limit]

MonitorTypeConfToCtrlCrossed(v) ==
    CASE v.variant = "MonitorTypeConf::Log" ->
            [variant |-> "ctrl::MonitorTypeConf::Log", fields |-> v.fields,
             sort_field |-> v.sort_field,
             sort_direction |-> SortDirToCtrl(v.sort_direction), limit |-> v.limit]
      [] v.variant = "MonitorTypeConf::Line" ->
            [variant |-> "ctrl::MonitorTypeConf::Line", x_field |-> v.y_field,
             y_field |-> v.x_field, limit |-> v.limit]

\* impl From<MonitorTypeConf> for ctrl::MonitorTypeConf
MonitorTypeConfToCtrl(v) ==
    CASE v.variant = "MonitorTypeConf::Log" ->
            [variant |-> "ctrl::MonitorTypeConf::Log", fields |-> v.fields,
             sort_field |-> v.sort_field,
             sort_direction |-> SortDirToCtrl(v.sort_direction), limit |-> v.limit]
      [] v.variant = "MonitorTypeConf::Line" ->
            [variant |-> "ctrl::MonitorTypeConf::Line", x_field |-> v.x_field,
             y_field |-> v.y_field, limit |-> v.limit]

\* impl From<ctrl::MonitorConf> for MonitorConf
MonitorConfToDb(v) ==
    [id |-> v.id, device_id |-> v.device_id, sensor |-> v.sensor,
     typ |-> CASE v.typ = "ctrl::MonitorType::Log" -> "MonitorType::Log"
               [] v.typ = "ctrl::MonitorType::Line" -> "MonitorType::Line",
     config |-> MonitorTypeConfToDb(v.config)]

\* impl From<MonitorConf> for ctrl::MonitorConf
MonitorConfToCtrl(v) ==
    [id |-> v.id, device_id |-> v.device_id, sensor |-> v.sensor,
     typ |-> CASE v.typ = "MonitorType::Log" -> "ctrl::MonitorType::Log"
               [] v.typ = "MonitorType::Line" -> "ctrl::MonitorType::Line",
     config |-> MonitorTypeConfToCtrl(v.config)]

\* #[derive(Serialize)] of MonitorTypeConf, MonitorLogConf, MonitorLineConf
\* and SortDir: an object with the variant's name as its one key.
to_json(v) ==
    CASE v.variant = "MonitorTypeConf::Log" ->
            [Log |-> [fields |-> v.fields, sort_field |-> v.sort_field,
                      sort_direction |-> SortDirToString(v.sort_direction),
                      limit |-> v.limit]]
      [] v.variant = "MonitorTypeConf::Line" ->
            [Line |-> [x_field |-> v.x_field, y_field |-> v.y_field, limit |-> v.limit]]

\* #[derive(Deserialize)] of the same types
from_json(doc) ==
    CASE DOMAIN doc = {"Log"} ->
            [variant |-> "MonitorTypeConf::Log", fields |-> doc.Log.fields,
             sort_field |-> doc.Log.sort_field,
             sort_direction |-> CASE doc.Log.sort_direction = "ASC" -> "SortDir::ASC"
                                  [] doc.Log.sort_direction = "DESC" -> "SortDir::DESC",
             limit |-> doc.Log.limit]
      [] DOMAIN doc = {"Line"} ->
            [variant |-> "MonitorTypeConf::Line", x_field |-> doc.Line.x_field,
             y_field |-> doc.Line.y_field, limit |-> doc.Line.limit]

\* A monitor configuration is saved: its values are those of the database
\* model, the type by its SCREAMING_SNAKE_CASE label and the config as a JSON
\* document; the database gives the row its id.
SaveMonitorConf(t) ==
    /\ pc[t] = "api_call"
    /\ loc[t].op = "save_monitor_conf"
    /\ pc' = [pc EXCEPT ![t] = "api_saved"]
    /\ \E id \in 1..2 :
         LET self == MonitorConfToDb(loc[t].arg) IN
         loc' = [loc EXCEPT ![t].out =
                    [id |-> id, device_id |-> self.device_id, sensor |-> self.sensor,
                     typ |-> CASE self.typ = "MonitorType::Log" -> "LOG"
                               [] self.typ = "MonitorType::Line" -> "LINE",
                     config |-> to_json(self.config)]]
    /\ UNCHANGED <<boot, committed, last_id, device_map, dev, outer_w, outer_r, dev_w, dev_r,
                   fs, hist, succeeded, removed, calls>>

\* The row is read back (#[derive(FromRow)]) and converted for the controller.
LoadMonitorConf(t) ==
    /\ pc[t] = "api_saved"
    /\ pc' = [pc EXCEPT ![t] = "api_ret"]
    /\ LET row == loc[t].out
           self == [id |-> row.id, device_id |-> row.device_id, sensor |-> row.sensor,
                    typ |-> CASE row.typ = "LOG" -> "MonitorType::Log"
                              [] row.typ = "LINE" -> "MonitorType::Line",
                    config |-> from_json(row.config)]
       IN loc' = [loc EXCEPT ![t].out = MonitorConfToCtrl(self)]
    /\ UNCHANGED <<boot, committed, last_id, device_map, dev, outer_w, outer_r, dev_w, dev_r,
                   fs, hist, succeeded, removed, calls>>

MonitorConfCall(typ, config) ==
    [NoLoc EXCEPT !.op = "save_monitor_conf",
                  !.arg = [id |-> 0, device_id |-> 1, sensor |-> "temp", typ |-> typ,
                           config |-> config]]

MonitorTypes == {"ctrl::MonitorType::Log", "ctrl::MonitorType::Line"}

MonitorLogCalls ==
    { MonitorConfCall(typ, c) :
        typ \in MonitorTypes,
        c \in [variant : {"ctrl::MonitorTypeConf::Log"},
               fields : {<<>>, <<"ts">>, <<"v", "ts">>}, sort_field : Columns,
               sort_direction : {"ctrl::SortDir::ASC", "ctrl::SortDir::DESC"},
               limit : {0, 100}] }

MonitorLineCalls ==
    { MonitorConfCall(typ, c) :
        typ \in MonitorTypes,
        c \in [variant : {"ctrl::MonitorTypeConf::Line"}, x_field : Columns,
               y_field : Columns, limit : {0, 100}] }

\* #[validate(range(max = 1000))] of GetSensorDataRequest.limit
LimitMax == 1000

I32Max == 2147483647

\* #[derive(Validate)] of Sort
SortValidate(self) == Len(self.field) >= 1

GetSensorDataRequestValidateBelow(self) ==
    /\ self.device_id >= 1
    /\ Len(self.sensor) >= 1
    /\ Len(self.fields) >= 1
    /\ SortValidate(self.sort)
    /\ self.limit # <<>> => self.limit[1] < LimitMax

\* #[derive(Validate)] of GetSensorDataRequest
GetSensorDataRequestValidate(self) ==
    /\ self.device_id >= 1
    /\ Len(self.sensor) >= 1
    /\ Len(self.fields) >= 1
    /\ SortValidate(self.sort)
    /\ self.limit # <<>> => self.limit[1] <= LimitMax

\* The extractor each handler declares for its request body.
Extractor(endpoint) ==
    CASE endpoint \in {"connect-device", "obtain-device-conf-info", "configure-device",
                       "interrupt-device-init"} -> "actix_web::web::Json"
      [] endpoint \in {"get-sensor-data", "get-device-sensor-info", "save-monitor-conf",
                       "get-monitor-conf-list"} -> "actix_web_validator::Json"

\* What #[derive(Validate)] checks on the request of an endpoint.
validate(endpoint, req) ==
    CASE endpoint = "get-sensor-data" -> GetSensorDataRequestValidate(req)
      [] endpoint = "get-device-sensor-info" -> req.device_id >= 1
      [] endpoint = "save-monitor-conf" -> req.device_id >= 1 /\ Len(req.sensor) >= 1
      [] endpoint = "get-monitor-conf-list" -> TRUE

\* The device_id a handler passes to the controller.
device_id(endpoint, req) ==
    IF endpoint = "get-monitor-conf-list" THEN req.filter.device_id ELSE req.device_id

\* The body is deserialized, and validated if the extractor validates; a
\* body that fails validation is answered with 400 and the handler is not run.
JsonExtract(t) ==
    /\ pc[t] = "http_req"
    /\ pc' = [pc EXCEPT ![t] =
                 IF Extractor(loc[t].op) = "actix_web_validator::Json"
                    /\ ~validate(loc[t].op, loc[t].arg.req)
                    THEN "http_400" ELSE "http_handler"]
    /\ UNCHANGED <<boot, committed, last_id, device_map, dev, outer_w, outer_r, dev_w, dev_r,
                   fs, hist, succeeded, removed, calls, loc>>

\* connect_device, obtain_device_conf_info, configure_device,
\* interrupt_device_init, get_sensor_data and get_monitor_conf_list: the
\* controller is called with the request's device_id and its answer is
\* passed on.
Handler(t) ==
    /\ pc[t] = "http_handler"
    /\ loc[t].op \in {"connect-device", "obtain-device-conf-info", "configure-device",
                      "interrupt-device-init", "get-sensor-data", "get-monitor-conf-list"}
    /\ \E status \in {"http_200", "http_err"} : pc' = [pc EXCEPT ![t] = status]
    /\ loc' = [loc EXCEPT ![t].id = device_id(loc[t].op, loc[t].arg.req),
                          ![t].out = <<loc[t].op>>]
    /\ UNCHANGED <<boot, committed, last_id, device_map, dev, outer_w, outer_r, dev_w, dev_r,
                   fs, hist, succeeded, removed, calls>>

\* impl From<SaveMonitorConfRequest> for controller::MonitorConf, with the
\* conversions of MonitorType, MonitorTypeConf, MonitorLogConf,
\* MonitorLineConf and SortDir it calls.
SaveMonitorConfRequestToCtrl(value) ==
    [id |-> 0, device_id |-> value.device_id, sensor |-> value.sensor,
     typ |-> CASE value.typ = "MonitorType::Log" -> "ctrl::MonitorType::Log"
               [] value.typ = "MonitorType::Line" -> "ctrl::MonitorType::Line",
     config |->
        CASE value.config.variant = "MonitorTypeConf::Log" ->
                [variant |-> "ctrl::MonitorTypeConf::Log", fields |-> value.config.fields,
                 sort_field |-> value.config.sort_field,
                 sort_direction |->
                    CASE value.config.sort_direction = "SortDir::ASC" -> "ctrl::SortDir::ASC"
                      [] value.config.sort_direction = "SortDir::DESC" -> "ctrl::SortDir::DESC",
                 limit |-> value.config.limit]
          [] value.config.variant = "MonitorTypeConf::Line" ->
                [variant |-> "ctrl::MonitorTypeConf::Line", x_field |-> value.config.x_field,
                 y_field |-> value.config.y_field, limit |-> value.config.limit]]

\* save_monitor_conf: the validated request is converted and handed to the
\* controller's save_monitor_conf.
HttpSaveMonitorConf(t) ==
    /\ pc[t] = "http_handler"
    /\ loc[t].op = "save-monitor-conf"
    /\ pc' = [pc EXCEPT ![t] = "api_call"]
    /\ loc' = [loc EXCEPT ![t].op = "save_monitor_conf",
                          ![t].endpoint = "save-monitor-conf",
                          ![t].id = loc[t].arg.req.device_id,
                          ![t].arg = SaveMonitorConfRequestToCtrl(loc[t].arg.req)]
    /\ UNCHANGED <<boot, committed, last_id, device_map, dev, outer_w, outer_r, dev_w, dev_r,
                   fs, hist, succeeded, removed, calls>>

\* The byte of a character; String compares byte by byte.
Byte(c) ==
    CASE c = "B" -> 66
      [] c = "a" -> 97
      [] c = "b" -> 98
      [] c = "x" -> 120
      [] c = "y" -> 121

RECURSIVE StringLe(_, _)
StringLe(x, y) ==
    IF x = <<>> THEN TRUE
    ELSE IF y = <<>> THEN FALSE
    ELSE IF x[1] = y[1] THEN StringLe(Tail(x), Tail(y))
    ELSE Byte(x[1]) < Byte(y[1])

sort_as_given(v, compare) == {v}

\* slice::sort_unstable_by: some arrangement of the elements that ascends by
\* compare, the pairs <<a, b>> with a not after b; which one, among equal
\* elements, is not specified.
sort_unstable_by(v, compare) ==
    { [i \in 1..Len(v) |-> v[q[i]]] :
        q \in { r \in Permutations(1..Len(v)) :
                  \A i \in 1..(Len(v) - 1) : <<v[r[i]], v[r[i + 1]]>> \in compare } }

Pairs(v) == { <<v[i], v[j]>> : i, j \in 1..Len(v) }

\* |a, b| a.id.partial_cmp(&b.id)
ById(v) == { p \in Pairs(v) : p[1].id <= p[2].id }

\* |a, b| a.name.partial_cmp(&b.name)
ByName(v) == { p \in Pairs(v) : StringLe(p[1].name, p[2].name) }

\* get_device_list
HttpGetDeviceList(t) ==
    /\ pc[t] = "http_handler"
    /\ loc[t].op = "get-device-list"
    /\ pc' = [pc EXCEPT ![t] = "http_200"]
    /\ \E res \in sort_unstable_by(loc[t].arg.ctrl, ById(loc[t].arg.ctrl)) :
          loc' = [loc EXCEPT ![t].out =
                     [i \in 1..Len(res) |-> [id |-> res[i].id, name |-> res[i].display_name]]]
    /\ UNCHANGED <<boot, committed, last_id, device_map, dev, outer_w, outer_r, dev_w, dev_r,
                   fs, hist, succeeded, removed, calls>>

\* impl From<controller::SensorInfo> for SensorInfo: the possible results
SensorInfoFrom(value) ==
    { [name |-> value.name, data |-> data] :
        data \in sort_unstable_by(value.data, ByName(value.data)) }

\* impl From<Vec<controller::SensorInfo>> for GetDeviceSensorInfoResponse
RECURSIVE SensorInfosFrom(_)
SensorInfosFrom(value) ==
    IF value = <<>> THEN {<<>>}
    ELSE { <<h>> \o rest :
             h \in SensorInfoFrom(Head(value)), rest \in SensorInfosFrom(Tail(value)) }

GetDeviceSensorInfoResponseFrom(value) ==
    UNION { sort_unstable_by(device_sensor_info, ByName(device_sensor_info)) :
              device_sensor_info \in SensorInfosFrom(value) }

\* get_device_sensor_info
HttpGetDeviceSensorInfo(t) ==
    /\ pc[t] = "http_handler"
    /\ loc[t].op = "get-device-sensor-info"
    /\ pc' = [pc EXCEPT ![t] = "http_200"]
    /\ \E res \in GetDeviceSensorInfoResponseFrom(loc[t].arg.ctrl) :
          loc' = [loc EXCEPT ![t].id = loc[t].arg.req.device_id, ![t].out = res]
    /\ UNCHANGED <<boot, committed, last_id, device_map, dev, outer_w, outer_r, dev_w, dev_r,
                   fs, hist, succeeded, removed, calls>>

DeviceIds == {-1, 0, 1, 2}

\* The sequences without repetition of elements of S.
RECURSIVE Arrangements(_)
Arrangements(S) ==
    {<<>>} \cup UNION { { <<x>> \o rest : rest \in Arrangements(S \ {x}) } : x \in S }

\* What the controller hands to get_device_list: the configured devices in
\* the iteration order of the registry map.
DeviceListCalls ==
    { [NoLoc EXCEPT !.op = "get-device-list", !.arg = [ctrl |-> l]] :
        l \in { [i \in 1..Len(ids) |-> [id |-> ids[i], display_name |-> "d"]] :
                  ids \in Arrangements(1..3) } }

SensorNames == { <<"a">>, <<"a", "b">>, <<"B">> }

FieldLists ==
    { [i \in 1..Len(names) |-> [name |-> names[i], typ |-> "Int32"]] :
        names \in Arrangements({ <<"x">>, <<"y">>, <<"x", "y">> }) }

SensorInfoLists ==
    { l \in UNION { [1..n -> [name : SensorNames, data : FieldLists]] : n \in 0..2 } :
        \A i, j \in 1..Len(l) : l[i].name = l[j].name => i = j }

DeviceSensorInfoCalls ==
    { [NoLoc EXCEPT !.op = "get-device-sensor-info",
                    !.arg = [req |-> [device_id |-> d], ctrl |-> l]] :
        d \in {0, 1}, l \in SensorInfoLists }

HttpCall(endpoint, req) == [NoLoc EXCEPT !.op = endpoint, !.arg = [req |-> req]]

DeviceIdCalls ==
    { HttpCall(e, [device_id |-> d]) :
        e \in {"connect-device", "obtain-device-conf-info", "configure-device",
               "interrupt-device-init"},
        d \in DeviceIds }

GetSensorDataCalls ==
    { HttpCall("get-sensor-data", r) :
        r \in [device_id : {0, 1}, sensor : {"", "temp"}, fields : {<<>>, <<"ts">>, <<"">>},
               sort : [field : {"", "ts"}, order : {"ASC"}], from : {<<>>},
               limit : Opt({-1, 0, 1, LimitMax - 1, LimitMax, LimitMax + 1, LimitMax + 2,
                            I32Max})] }

SaveMonitorLogCalls ==
    { HttpCall("save-monitor-conf", r) :
        r \in [device_id : DeviceIds, sensor : {"", "temp"},
               typ : {"MonitorType::Log", "MonitorType::Line"},
               config : [variant : {"MonitorTypeConf::Log"}, fields : {<<"ts", "v">>},
                         sort_field : {"ts"}, sort_direction : {"SortDir::ASC", "SortDir::DESC"},
                         limit : {100}]] }

SaveMonitorLineCalls ==
    { HttpCall("save-monitor-conf", r) :
        r \in [device_id : DeviceIds, sensor : {"", "temp"},
               typ : {"MonitorType::Log", "MonitorType::Line"},
               config : [variant : {"MonitorTypeConf::Line"}, x_field : {"ts"},
                         y_field : {"v"}, limit : {100}]] }

MonitorConfListCalls ==
    { HttpCall("get-monitor-conf-list", [filter |-> [device_id |-> d]]) : d \in DeviceIds }

InitApi ==
    /\ NoManager
    /\ \E t \in Tasks :
        \/ /\ pc = [u \in Tasks |-> IF u = t THEN "api_call" ELSE "idle"]
           /\ \/ \E c \in FilterCalls : loc = [u \in Tasks |-> IF u = t THEN c ELSE NoLoc]
              \/ \E c \in MonitorLogCalls : loc = [u \in Tasks |-> IF u = t THEN c ELSE NoLoc]
              \/ \E c \in MonitorLineCalls : loc = [u \in Tasks |-> IF u = t THEN c ELSE NoLoc]
        \/ /\ pc = [u \in Tasks |-> IF u = t THEN "http_req" ELSE "idle"]
           /\ \/ \E c \in DeviceIdCalls : loc = [u \in Tasks |-> IF u = t THEN c ELSE NoLoc]
              \/ \E c \in GetSensorDataCalls :
                    loc = [u \in Tasks |-> IF u = t THEN c ELSE NoLoc]
              \/ \E c \in SaveMonitorLogCalls :
                    loc = [u \in Tasks |-> IF u = t THEN c ELSE NoLoc]
              \/ \E c \in SaveMonitorLineCalls :
                    loc = [u \in Tasks |-> IF u = t THEN c ELSE NoLoc]
              \/ \E c \in MonitorConfListCalls :
                    loc = [u \in Tasks |-> IF u = t THEN c ELSE NoLoc]
              \/ \E c \in DeviceSensorInfoCalls :
                    loc = [u \in Tasks |-> IF u = t THEN c ELSE NoLoc]
        \/ /\ pc = [u \in Tasks |-> IF u = t THEN "http_handler" ELSE "idle"]
           /\ \E c \in DeviceListCalls : loc = [u \in Tasks |-> IF u = t THEN c ELSE NoLoc]

NextApi ==
    \/ \E t \in Tasks : FilterApply(t)
    \/ \E t \in Tasks : SaveMonitorConf(t)
    \/ \E t \in Tasks : LoadMonitorConf(t)
    \/ \E t \in Tasks : JsonExtract(t)
    \/ \E t \in Tasks : Handler(t)
    \/ \E t \in Tasks : HttpSaveMonitorConf(t)
    \/ \E t \in Tasks : HttpGetDeviceList(t)
    \/ \E t \in Tasks : HttpGetDeviceSensorInfo(t)

SpecApi == InitApi /\ [][NextApi]_vars

\* ============================================================ properties
\* The directory name "<id>-<name>" of a device, written out.
DirString(id, name) == to_string(id) \o <<"-">> \o name

DevicePath(id, name) == << <<"device">>, DirString(id, name) >>

TreeComplete(f, id, name) ==
    /\ IsDir(f, DevicePath(id, name))
    /\ IsDir(f, DevicePath(id, name) \o << <<"module">> >>)
    /\ IsDir(f, DevicePath(id, name) \o << <<"data">> >>)
    /\ Exists(f, DevicePath(id, name) \o << <<"module">>, <<"l", "i", "b", ".", "s", "o">> >>)
    /\ ~IsDir(f, DevicePath(id, name) \o << <<"module">>, <<"l", "i", "b", ".", "s", "o">> >>)

NoTree(f, id, name) == \A p \in DOMAIN f : ~IsPrefix(DevicePath(id, name), p)

TaskMoves(t) == pc'[t] # pc[t] \/ loc'[t] # loc[t]

\* ------------------------------------------------------- query builder
\* query/mod.rs.  A part is the SQL text it renders to and its bound
\* arguments, None or Some(vector).
Part(sql, args) == [sql |-> sql, args |-> args]

\* Part::new(PredType::String(s), None)
PartNew(s) == Part(s, Nil)

\* StatementBuilder::new: nothing under "columns", nothing under "table"
StatementBuilderNew == [columns |-> <<>>, table |-> Nil]

\* b.set("table", part)
table(b, name) == [b EXCEPT !.table = Ptr(PartNew(name))]

\* b.extend("columns", part)
columns(b, column) == [b EXCEPT !.columns = Append(@, PartNew(column))]

\* The loop of append_sql from the part of index i, counted from 0.
RECURSIVE append_sql_from(_, _, _, _, _)
append_sql_from(parts, i, s, sep, args) ==
    IF i >= Len(parts) THEN [s |-> s, args |-> args]
    ELSE LET p == parts[i + 1] IN
         IF Len(p.sql) = 0
            THEN append_sql_from(parts, i + 1, s, sep, args)
            ELSE append_sql_from(parts, i + 1,
                                 (IF i > 0 THEN s \o sep ELSE s) \o p.sql, sep,
                                 IF IsNull(p.args) THEN args ELSE args \o p.args[1])

append_sql(parts, s, sep, args) == append_sql_from(parts, 0, s, sep, args)

\* SelectBuilder::sql_raw; the WHERE parts are not rendered.
sql_raw(b) ==
    LET cols == IF Len(b.columns) > 0
                   THEN append_sql(b.columns, "SELECT ", ", ", <<>>)
                   ELSE [s |-> "SELECT ", args |-> <<>>]
    IN IF IsNull(b.table)
          THEN cols
          ELSE append_sql(<<b.table[1]>>, cols.s \o " FROM ", ", ", cols.args)

\* The builder after columns(c) for each c of cs, in order.
RECURSIVE with_columns(_, _)
with_columns(b, cs) ==
    IF cs = <<>> THEN b ELSE with_columns(columns(b, Head(cs)), Tail(cs))

AppendSql(t) ==
    /\ pc[t] = "q_append"
    /\ pc' = [pc EXCEPT ![t] = "q_ret"]
    /\ loc' = [loc EXCEPT ![t].out =
                  append_sql(loc[t].arg.parts, loc[t].arg.s, loc[t].arg.sep, <<>>)]
    /\ UNCHANGED <<boot, committed, last_id, device_map, dev, outer_w, outer_r, dev_w, dev_r,
                   fs, hist, succeeded, removed, calls>>

\* StatementBuilder::new(), table and columns as the caller gives them,
\* select(), sql()
SqlRaw(t) ==
    /\ pc[t] = "q_select"
    /\ pc' = [pc EXCEPT ![t] = "q_ret"]
    /\ LET named == IF IsNull(loc[t].arg.table)
                       THEN StatementBuilderNew
                       ELSE table(StatementBuilderNew, loc[t].arg.table[1])
       IN loc' = [loc EXCEPT ![t].out = sql_raw(with_columns(named, loc[t].arg.columns))]
    /\ UNCHANGED <<boot, committed, last_id, device_map, dev, outer_w, outer_r, dev_w, dev_r,
                   fs, hist, succeeded, removed, calls>>

MaxParts == 3

SeqsUpTo(S, n) == UNION { [1..k -> S] : k \in 0..n }

\* A part that renders to no text binds no argument.
Parts ==
    { PartNew("") } \cup { Part(sql, args) : sql \in {"a", "b"}, args \in Opt({<<7>>}) }

AppendSqlCalls ==
    { [NoLoc EXCEPT !.op = "append_sql", !.arg = [parts |-> parts, s |-> s, sep |-> ", "]] :
          parts \in SeqsUpTo(Parts, MaxParts), s \in {"", "x "} }

SqlRawCalls ==
    { [NoLoc EXCEPT !.op = "sql_raw", !.arg = [columns |-> cs, table |-> tb]] :
          cs \in SeqsUpTo({"", "c1", "c2"}, MaxParts), tb \in Opt({"t"}) }

InitQuery ==
    /\ NoManager
    /\ \E t \in Tasks :
          \/ /\ pc = [u \in Tasks |-> IF u = t THEN "q_append" ELSE "idle"]
             /\ \E c \in AppendSqlCalls : loc = [u \in Tasks |-> IF u = t THEN c ELSE NoLoc]
          \/ /\ pc = [u \in Tasks |-> IF u = t THEN "q_select" ELSE "idle"]
             /\ \E c \in SqlRawCalls : loc = [u \in Tasks |-> IF u = t THEN c ELSE NoLoc]

NextQuery ==
    \/ \E t \in Tasks : AppendSql(t)
    \/ \E t \in Tasks : SqlRaw(t)

SpecQuery == InitQuery /\ [][NextQuery]_vars

\* C1: interrupt_device_init on a device whose init_state is Sensors never
\* reaches delete_device: it returns IllegalState (while the device is
\* registered), and none of its steps changes the registry, a device or
\* the disk.
C1_InterruptOnSensorsRejected ==
    [][\A t \in Tasks :
        (loc[t].op = "interrupt_device_init" /\ loc[t].pre = "Sensors" /\ TaskMoves(t)) =>
            /\ pc'[t] \in {"gis_read", "idi_check", "idi_err", "idle"}
            /\ (pc'[t] = "idi_err" /\ loc[t].id \in device_map') =>
                    loc'[t].res.err = "IllegalState"
            /\ device_map' = device_map
            /\ dev' = dev
            /\ fs' = fs
            /\ last_id' = last_id]_vars

C1_Witness ==
    \E t \in Tasks :
        /\ pc[t] = "idi_err"
        /\ loc[t].op = "interrupt_device_init"
        /\ loc[t].pre = "Sensors"
        /\ loc[t].res.err = "IllegalState"
        /\ loc[t].id \in device_map
        /\ dev[loc[t].id].init_state = "Sensors"
        /\ TreeComplete(fs, loc[t].id, dev[loc[t].id].name)

\* C2: a device_sensor_init that finds the device in state Sensors returns
\* an error and leaves the device's sensors map and init_state unchanged.
C2_SensorInitOnSensorsRejected ==
    \A t \in Tasks :
        (loc[t].op = "device_sensor_init" /\ loc[t].pre = "Sensors") =>
            /\ pc[t] # "dsi_ok"
            /\ dev[loc[t].id].sensor_map = loc[t].pre_sensors
            /\ dev[loc[t].id].init_state = "Sensors"

\* C3: a device whose init_state is Sensors keeps init_state Sensors in
\* every step (and its id is never given to another device).
C3_SensorsTerminal ==
    [][\A id \in DOMAIN dev :
        dev[id].init_state = "Sensors" =>
            (id \in DOMAIN dev' /\ dev'[id].init_state = "Sensors")]_vars

C3_Witness ==
    \E t \in Tasks :
        /\ pc[t] = "dsi_ok"
        /\ loc[t].pre = "Device"
        /\ loc[t].id \in device_map
        /\ dev[loc[t].id].init_state = "Sensors"

\* C4: the step on which start_device_init returns Ok leaves the returned
\* id in the registry with init_state Device and no sensors, the tree
\* <id>-<name> with module/, the module file and data/ on disk, and returns
\* DeviceInitData with that id and init_state Device.
C4_StartDeviceInitPost ==
    [][\A t \in Tasks :
        (pc[t] = "sdi_insert" /\ pc'[t] = "sdi_ok") =>
            LET data == loc'[t].res.data IN
            /\ loc'[t].res.status = "ok"
            /\ data.id = loc[t].id
            /\ \E i \in 1..Len(hist) : hist[i] = [id |-> data.id, name |-> loc[t].name]
            /\ data.init_state = "Device"
            /\ data.id \in device_map'
            /\ dev'[data.id].init_state = "Device"
            /\ DOMAIN dev'[data.id].sensor_map = {}
            /\ dev'[data.id].name = loc[t].name
            /\ TreeComplete(fs', data.id, loc[t].name)
            /\ fs'[DevicePath(data.id, loc[t].name) \o
                     << <<"module">>, <<"l", "i", "b", ".", "s", "o">> >>] = loc[t].file
            /\ data.module_file = DevicePath(data.id, loc[t].name) \o
                     << <<"module">>, <<"l", "i", "b", ".", "s", "o">> >>]_vars

C4_Witness ==
    \E t \in Tasks :
        /\ pc[t] = "sdi_ok"
        /\ loc[t].res.data.id \in device_map
        /\ TreeComplete(fs, loc[t].id, loc[t].name)

\* C5: the step on which device_sensor_init returns Ok for a device it
\* found in state Device leaves that device with init_state Sensors and
\* every given sensor in its sensors map under the sensor's name; no step
\* of device_sensor_init changes another device.
C5_SensorInitPost ==
    [][\A t \in Tasks :
        /\ (pc[t] = "dsi_state" /\ pc'[t] = "dsi_ok" /\ loc[t].pre = "Device") =>
              /\ dev'[loc[t].id].init_state = "Sensors"
              /\ \A i \in 1..Len(loc[t].sensors) :
                    /\ loc[t].sensors[i].name \in DOMAIN dev'[loc[t].id].sensor_map
                    /\ dev'[loc[t].id].sensor_map[loc[t].sensors[i].name] = loc[t].sensors[i]
        /\ (loc[t].op = "device_sensor_init" /\ TaskMoves(t)) =>
              \A other \in (DOMAIN dev) \ {loc[t].id} :
                  other \in DOMAIN dev' /\ dev'[other] = dev[other]]_vars

C5_Witness ==
    \E t \in Tasks :
        /\ pc[t] = "dsi_ok"
        /\ loc[t].pre = "Device"
        /\ Len(loc[t].sensors) = 2
        /\ DOMAIN dev[loc[t].id].sensor_map = {"s1", "s2"}
        /\ \E other \in device_map \ {loc[t].id} : TRUE

\* C6: the ids of all start_device_init calls are pairwise distinct and so
\* are their directory names, also for calls with the same name; every id
\* of a successful call that was not deleted since is in get_device_ids.
C6_StartIdsDistinct ==
    /\ \A i, j \in 1..Len(hist) :
          i # j => /\ hist[i].id # hist[j].id
                   /\ DirString(hist[i].id, hist[i].name) # DirString(hist[j].id, hist[j].name)
    /\ (succeeded \ removed) \subseteq get_device_ids

\* two overlapping calls with the same name have both succeeded
C6_Witness ==
    \E t, u \in Tasks :
        /\ t # u
        /\ pc[t] = "sdi_ok" /\ pc[u] = "sdi_ok"
        /\ loc[u].overlap
        /\ loc[t].name = loc[u].name
        /\ {loc[t].id, loc[u].id} \subseteq get_device_ids
        /\ TreeComplete(fs, loc[t].id, loc[t].name)
        /\ TreeComplete(fs, loc[u].id, loc[u].name)

\* C7: last_id is at least every id in the registry.
C7_LastIdBound == \A id \in device_map : id <= last_id

C7_Witness ==
    \E t \in Tasks :
        /\ pc[t] = "sdi_ok"
        /\ loc[t].id \in device_map
        /\ loc[t].id = last_id
        /\ Cardinality(device_map) >= 2

\* C8: after a failed start_device_init nothing of the allocated id is left
\* on disk and the registry has no entry for it.
C8_StartDeviceInitAtomic ==
    \A t \in Tasks :
        pc[t] = "sdi_err" =>
            /\ NoTree(fs, loc[t].id, loc[t].name)
            /\ loc[t].id \notin device_map

\* C9: after a cancelled start_device_init or delete_device the device
\* directory is on disk if and only if the registry has the id.
C9_CancelConsistent ==
    \A t \in Tasks :
        pc[t] = "cancelled" =>
            (Exists(fs, DevicePath(loc[t].id, loc[t].name)) <=> loc[t].id \in device_map)

\* C10: whenever a reader can take the registry lock, every id in the
\* registry has its directory with module/, the module file and data/.
C10_RegistryTreesComplete ==
    CanRead(outer_w) =>
        \A id \in device_map : TreeComplete(fs, id, dev[id].name)

\* C11: from an empty registry, whenever a registered device can be read
\* (its write lock is free) and its init_state is Device, its sensors map is
\* empty; a non-empty sensors map is only seen with init_state Sensors.
C11_DeviceHasNoSensors ==
    \A id \in device_map :
        (dev_w[id] = 0 /\ dev[id].init_state = "Device") => DOMAIN dev[id].sensor_map = {}

C11_Witness ==
    \E id \in device_map :
        /\ id \in succeeded
        /\ dev_w[id] = 0
        /\ dev[id].init_state = "Sensors"
        /\ DOMAIN dev[id].sensor_map # {}

\* C12: every step that changes the fields of a registered device is taken
\* by the task that holds the device's write lock and still holds a read
\* lock of the registry; every step that changes the key set of the
\* registry is taken under the registry's write lock.
C12_LockDiscipline ==
    [][ /\ \A id \in device_map \cap DOMAIN dev' :
              dev'[id] # dev[id] => \E t \in Tasks : dev_w[id] = t /\ t \in outer_r
        /\ device_map' # device_map =>
              \/ outer_w \in Tasks
              \/ CanWrite(outer_w, outer_r) ]_vars

\* C13: the tasks that are mutating a device (device_sensor_init between
\* taking the device's write lock and returning, delete_device between
\* taking it and removing the id) hold its write lock, so for one device id
\* there is never more than one of them.
Mutating(t, id) ==
    /\ pc[t] \in {"dsi_insert", "dsi_state", "del_rm"}
    /\ loc[t].id = id

C13_OneMutationPerDevice ==
    \A id \in DOMAIN dev :
        /\ \A t \in Tasks : Mutating(t, id) => dev_w[id] = t
        /\ Cardinality({t \in Tasks : Mutating(t, id)}) <= 1

C13_Witness ==
    \E t, u \in Tasks :
        /\ t # u
        /\ Mutating(t, loc[t].id)
        /\ loc[u].id = loc[t].id
        /\ dev_w[loc[t].id] = t
        /\ \/ pc[u] = "del_dev" /\ pc[t] \in {"dsi_insert", "dsi_state"}
           \/ pc[u] = "dsi_lock" /\ pc[t] = "del_rm"

\* C17: the ids allocated by start_device_init, in allocation order, are
\* strictly increasing, whatever became of the calls; none of them is the id
\* of a device loaded at boot, so the id of a failed call and the id of a
\* deleted device are never allocated again.
BootIds == { boot.input.devices[i].id : i \in 1..Len(boot.input.devices) }

C17_IdsStrictlyIncreasing ==
    /\ \A i, j \in 1..Len(hist) : i < j => hist[i].id < hist[j].id
    /\ \A i \in 1..Len(hist) : hist[i].id \notin BootIds
    /\ removed \subseteq BootIds \cup { hist[i].id : i \in 1..Len(hist) }

C17_Witness ==
    /\ Len(hist) = 2
    /\ \E t, u \in Tasks :
        /\ pc[t] = "sdi_err" /\ loc[t].id = hist[1].id
        /\ pc[u] = "sdi_ok" /\ loc[u].id = hist[2].id
        /\ hist[2].id > hist[1].id

\* C16: once DeviceManager::new has built the registry, last_id is the
\* greatest id of the device rows (0 when there are none) until the first
\* allocation, and the first start_device_init gets that id plus one: 1 on
\* an empty database.
MaxRowId == IF BootIds = {} THEN 0 ELSE CHOOSE m \in BootIds : \A x \in BootIds : x <= m

C16_LastIdIsMaxRowId ==
    (boot.done /\ boot.res.ok) =>
        /\ hist = <<>> => last_id = MaxRowId
        /\ hist # <<>> => hist[1].id = MaxRowId + 1
        /\ (hist # <<>> /\ boot.input.devices = <<>>) => hist[1].id = 1

C16_Witness ==
    /\ boot.done /\ boot.res.ok
    /\ Len(boot.input.devices) = 2
    /\ boot.input.devices[1].id > boot.input.devices[2].id
    /\ hist # <<>>
    /\ hist[1].id = boot.input.devices[1].id + 1

\* The type table: database type name, field type.
TypeTable ==
    { <<"int2", "Int16">>, <<"int4", "Int32">>, <<"int8", "Int64">>,
      <<"float4", "Float32">>, <<"float8", "Float64">>, <<"timestamp", "Timestamp">>,
      <<"text", "String">>, <<"jsonb", "JSON">> }

SupportedUdt == { p[1] : p \in TypeTable }

ColumnRows == 1..Len(boot.input.sensor_types)

SensorRows == 1..Len(boot.input.device_sensors)

\* The device_sensor row j is the one that decides sensor_map[sensor_name] of
\* its device: the first row naming its table, the last naming its sensor.
Decides(j) ==
    LET ds == boot.input.device_sensors IN
    /\ \A k \in SensorRows : k < j => ds[k].sensor_table_name # ds[j].sensor_table_name
    /\ \A k \in SensorRows :
          k > j => ~(ds[k].device_id = ds[j].device_id /\ ds[k].sensor_name = ds[j].sensor_name
                     /\ ds[k].sensor_table_name \in
                            { boot.input.sensor_types[i].table_name : i \in ColumnRows })

\* C18: a registry is built only from columns of the eight database types
\* of the type table, and the field type a booted device has for a column
\* is the one the type table pairs with the column's database type; a
\* column of any other type name gets no field type, and no registry.
C18_UdtInverseOfTypeTable ==
    boot.done =>
        /\ boot.res.ok <=>
              /\ \A i \in ColumnRows : boot.input.sensor_types[i].udt_name \in SupportedUdt
              /\ \A j \in SensorRows :
                    boot.input.device_sensors[j].device_id \in BootIds
        /\ boot.res.ok =>
              \A i \in ColumnRows, j \in SensorRows :
                  LET ct == boot.input.sensor_types[i]
                      ds == boot.input.device_sensors[j]
                  IN (ct.table_name = ds.sensor_table_name /\ Decides(j)) =>
                        /\ ds.sensor_name \in DOMAIN dev[ds.device_id].sensor_map
                        /\ ct.column_name \in
                              DOMAIN dev[ds.device_id].sensor_map[ds.sensor_name].data_map
                        /\ << ct.udt_name,
                              dev[ds.device_id].sensor_map[ds.sensor_name]
                                  .data_map[ct.column_name].typ >> \in TypeTable

C18_Witness ==
    /\ boot.done /\ boot.res.ok
    /\ 1 \in device_map
    /\ "s1" \in DOMAIN dev[1].sensor_map
    /\ "f1" \in DOMAIN dev[1].sensor_map["s1"].data_map
    /\ dev[1].sensor_map["s1"].data_map["f1"].typ = "Int64"
    /\ boot.input.sensor_types[1].udt_name = "int8"

\* C19: when some column-type row has a database type outside the eight,
\* DeviceManager::new fails with SensorDataUnknownType carrying the table
\* and column of the first such row, and there is no registry: no device is
\* registered and no request is served.
BadRows == { i \in ColumnRows : boot.input.sensor_types[i].udt_name \notin SupportedUdt }

C19_UnknownTypeIsFatal ==
    (boot.done /\ BadRows # {}) =>
        LET i == CHOOSE k \in BadRows : \A x \in BadRows : k <= x IN
        /\ ~boot.res.ok
        /\ boot.res.err = "SensorDataUnknownType"
        /\ boot.res.table = boot.input.sensor_types[i].table_name
        /\ boot.res.column = boot.input.sensor_types[i].column_name
        /\ device_map = {}
        /\ DOMAIN dev = {}
        /\ \A t \in Tasks : pc[t] = "down"

C19_Witness ==
    /\ boot.done
    /\ BadRows = {2}
    /\ boot.input.devices = <<>>
    /\ boot.input.device_sensors # <<>>
    /\ ~boot.res.ok
    /\ boot.res.err = "SensorDataUnknownType"
    /\ boot.res.column = "f2"

\* The step of task t reads the fields of device id under its read lock.
ReadsDevice(t, id) ==
    \/ /\ pc[t] \in {"gis_read", "gsi_read"}
       /\ loc[t].id = id
       /\ pc'[t] # pc[t]
    \/ /\ pc[t] = "list_iter"
       /\ loc[t].order # <<>>
       /\ Head(loc[t].order) = id
       /\ loc'[t].order # loc[t].order

\* The sensors map after every sensor of the vector is inserted, in order.
RECURSIVE AllInserted(_, _)
AllInserted(sensor_map, sensors) ==
    IF sensors = <<>> THEN sensor_map
    ELSE AllInserted(Put(sensor_map, Head(sensors).name, Head(sensors)), Tail(sensors))

\* C14: what a reader reads of a device is a value the device had with its
\* write lock free, and around one device_sensor_init call those values are
\* two: before the call ends, the init_state and sensors map the call found;
\* from its end, init_state Sensors with every sensor of the call inserted.
\* What the three kinds of readers return is computed from that value.
C14_ReadersSeeSnapshots ==
    [][ /\ \A t \in Tasks, id \in DOMAIN dev :
              ReadsDevice(t, id) =>
                 /\ dev[id] = committed[id]
                 /\ pc[t] = "gis_read" =>
                       loc'[t].res.data.init_state = committed[id].init_state
                 /\ pc[t] = "gsi_read" =>
                       IF committed[id].init_state = "Sensors"
                          THEN /\ pc'[t] = "gsi_ok"
                               /\ loc'[t].out = sensor_info(committed[id].sensor_map)
                          ELSE pc'[t] = "gsi_err"
                 /\ (pc[t] = "list_iter" /\ loc[t].op = "get_init_data_all_devices") =>
                       loc'[t].out[Len(loc'[t].out)].init_state = committed[id].init_state
        /\ \A u \in Tasks :
              pc[u] \in {"dsi_insert", "dsi_state"} =>
                 /\ committed[loc[u].id].init_state = loc[u].pre
                 /\ committed[loc[u].id].sensor_map = loc[u].pre_sensors
                 /\ pc'[u] = "dsi_ok" =>
                       /\ committed'[loc[u].id].init_state = "Sensors"
                       /\ committed'[loc[u].id].sensor_map =
                              AllInserted(loc[u].pre_sensors, loc[u].sensors) ]_vars

\* A get_device_sensor_info that found the device inside a device_sensor_init
\* has waited for it and returned the sensors of the finished call.
C14_Witness ==
    \E t, u \in Tasks :
        /\ pc[t] = "gsi_ok"
        /\ loc[t].overlap
        /\ pc[u] = "dsi_ok"
        /\ loc[u].id = loc[t].id
        /\ loc[u].pre = "Device"
        /\ Len(loc[u].sensors) = 2
        /\ loc[t].out = sensor_info(AllInserted(<<>>, loc[u].sensors))

\* The ids of the entries of a result vector.
OutIds(out) == { out[i].id : i \in 1..Len(out) }

\* C15: when get_device_info_list returns, its result has no id twice, every
\* entry is a registered device whose init_state is Sensors, with its id and
\* display_name, no registered device whose init_state is Device is in it,
\* and every device that was configured when the call took the registry
\* lock is in it (so with no device_sensor_init finishing during the call
\* the result is exactly the configured devices); get_device_ids returns
\* the key set of the registry, whatever the init_states.
C15_InfoListIsConfiguredDevices ==
    [][ \A t \in Tasks :
          /\ (pc[t] = "list_iter" /\ pc'[t] = "list_ok"
                 /\ loc[t].op = "get_device_info_list") =>
                LET out == loc[t].out IN
                /\ \A i, j \in 1..Len(out) : i # j => out[i].id # out[j].id
                /\ \A i \in 1..Len(out) :
                      /\ out[i].id \in device_map
                      /\ committed[out[i].id].init_state = "Sensors"
                      /\ out[i] = [id |-> out[i].id,
                                   display_name |-> committed[out[i].id].display_name]
                /\ \A id \in device_map :
                      committed[id].init_state = "Device" => id \notin OutIds(out)
                /\ loc[t].seen \subseteq OutIds(out)
                /\ loc'[t].out = out
          /\ (pc[t] = "idle" /\ pc'[t] = "ids_ok") => loc'[t].sensors = device_map ]_vars

\* One task has listed the configured device 2 and not the registered
\* device 1; the other has been given both ids.
C15_Witness ==
    \E t, u \in Tasks :
        /\ pc[t] = "list_ok"
        /\ loc[t].op = "get_device_info_list"
        /\ loc[t].out = << [id |-> 2, display_name |-> "A"] >>
        /\ pc[u] = "ids_ok"
        /\ loc[u].sensors = {1, 2}
        /\ committed[1].init_state = "Device"

\* C21: a registered device whose directory is not on disk is not in the
\* result get_device_info_list is about to return, and it stays registered.
C21_LostDeviceNotListed ==
    \A t \in Tasks :
        (pc[t] = "list_iter" /\ loc[t].order = <<>> /\ loc[t].op = "get_device_info_list") =>
            /\ BootIds \ removed \subseteq device_map
            /\ \A i \in 1..Len(loc[t].out) :
                  IsDir(fs, DevicePath(loc[t].out[i].id, committed[loc[t].out[i].id].name))

\* C22: a registry enumeration that has been called (get_device_info_list,
\* get_init_data_all_devices; get_device_ids takes the same lock) can take
\* its read lock of the registry whenever another request is at a filesystem
\* await: it never waits for the removal of a directory.
C22_EnumerationNeverWaits ==
    \A t, u \in Tasks :
        (pc[t] = "list_lock" /\ pc[u] \in Suspended) => CanRead(outer_w)

C24_StatusByte ==
    \A t \in Tasks :
        (pc[t] = "drv_ret" /\ loc[t].op = "convert_com_error") =>
            LET b == loc[t].i
                r == loc[t].out
            IN /\ b \in 0..255
               /\ b = 0 => r.status = "ok"
               /\ b = 1 => (r.status = "err" /\ r.err = "ConnectionError")
               /\ b = 2 => (r.status = "err" /\ r.err = "InvalidArgument")
               /\ b \in 3..255 => (r.status = "err" /\ r.err = "Unknown")

C24_Witness ==
    \E t \in Tasks :
        /\ pc[t] = "drv_ret"
        /\ loc[t].op = "convert_com_error"
        /\ loc[t].i = 255
        /\ loc[t].out.err = "Unknown"

\* C25: an out-parameter callback that was handed a structure with a nil
\* pointer where a pointee is needed returns an InvalidPointer error that
\* names the path of that pointer, without having dereferenced it and with
\* no partial result.
C25_NilIsInvalidPointer ==
    \A t \in Tasks :
        (pc[t] = "drv_ret" /\ loc[t].nil # "") =>
            /\ loc[t].out.status = "err"
            /\ loc[t].out.err = "InvalidPointer"
            /\ loc[t].out.path = loc[t].nil
            /\ loc[t].out.value = <<>>

\* C26: SensorDataFilter.apply adds to the statement, after what it already
\* holds, a predicate `field > ?` iff from is set and then a predicate
\* `field < ?` iff to is set, each with its value as the one bound argument;
\* it sets the LIMIT iff limit is set and the ORDER BY to `field ASC|DESC`
\* iff sort is set; an absent part leaves the statement as it was.
C26_FilterApply ==
    \A t \in Tasks :
        (pc[t] = "api_ret" /\ loc[t].op = "SensorDataFilter::apply") =>
            LET f == loc[t].arg.filter
                b0 == loc[t].arg.b
                b == loc[t].out
                added == SubSeq(b.where, Len(b0.where) + 1, Len(b.where))
                greater == { i \in 1..Len(added) : added[i].sql[2] = ">" }
                less == { i \in 1..Len(added) : added[i].sql[2] = "<" }
            IN /\ SubSeq(b.where, 1, Len(b0.where)) = b0.where
               /\ greater \cup less = 1..Len(added)
               /\ (f.from # <<>>) <=> (greater = {1})
               /\ (f.from = <<>>) <=> (greater = {})
               /\ (f.to # <<>>) <=> (less = {Len(added)})
               /\ (f.to = <<>>) <=> (less = {})
               /\ \A i \in greater : added[i] = [sql |-> <<f.from[1][1], ">", "?">>,
                                                 args |-> <<f.from[1][2]>>]
               /\ \A i \in less : added[i] = [sql |-> <<f.to[1][1], "<", "?">>,
                                              args |-> <<f.to[1][2]>>]
               /\ b.limit = (IF f.limit = <<>> THEN b0.limit ELSE f.limit)
               /\ f.sort = <<>> => b.order = b0.order
               /\ \A dir \in {"ASC", "DESC"} :
                     (f.sort # <<>> /\ f.sort[1].order = "SortDir::" \o dir) =>
                         b.order = <<f.sort[1].field \o " " \o dir>>

C26_Witness ==
    \E t \in Tasks :
        /\ pc[t] = "api_ret"
        /\ loc[t].op = "SensorDataFilter::apply"
        /\ loc[t].arg.filter.from # <<>>
        /\ loc[t].arg.filter.to # <<>>
        /\ loc[t].arg.filter.limit = <<10>>
        /\ loc[t].arg.filter.sort # <<>>
        /\ loc[t].arg.b.where # <<>>
        /\ Len(loc[t].out.where) = 3

\* C27: a get-sensor-data request whose other fields are valid passes
\* validation with no limit and with every limit up to and including 1000
\* (0 included) and is rejected with limit 1001 and every larger limit; a
\* request with an empty fields list or an empty sort.field is rejected
\* whatever its limit.
C27_LimitAndFields ==
    \A t \in Tasks :
        (loc[t].op = "get-sensor-data" /\ pc[t] # "http_req") =>
            LET req == loc[t].arg.req
                accepted == pc[t] # "http_400"
            IN /\ (req.limit # <<>> /\ req.limit[1] >= 1001) => ~accepted
               /\ req.fields = <<>> => ~accepted
               /\ req.sort.field = "" => ~accepted
               /\ ( /\ req.limit = <<>> \/ req.limit[1] <= 1000
                    /\ req.device_id >= 1
                    /\ req.sensor # ""
                    /\ req.fields # <<>>
                    /\ req.sort.field # "" ) => accepted

C27_Witness ==
    \E t \in Tasks :
        /\ loc[t].op = "get-sensor-data"
        /\ pc[t] = "http_400"
        /\ loc[t].arg.req.limit = <<1001>>
        /\ loc[t].arg.req.fields # <<>>
        /\ loc[t].arg.req.sort.field # ""
        /\ loc[t].arg.req.device_id >= 1
        /\ loc[t].arg.req.sensor # ""

\* C28: on each of the eight endpoints that take a device_id, a request with
\* device_id < 1 is rejected before the controller is called.
C28_DeviceIdValidated ==
    \A t \in Tasks :
        (loc[t].op \in {"connect-device", "obtain-device-conf-info", "configure-device",
                        "interrupt-device-init", "get-sensor-data", "get-device-sensor-info",
                        "save-monitor-conf", "get-monitor-conf-list"}
         /\ device_id(loc[t].op, loc[t].arg.req) < 1) =>
            pc[t] \in {"http_req", "http_400"}

\* C29: whatever order the controller hands the lists over in, the
\* get-device-list response is in ascending order of device id and holds the
\* same devices, and the get-device-sensor-info response lists the same
\* sensors in ascending order of name, each with its fields in ascending
\* order of name.
C29_ResponsesSorted ==
    \A t \in Tasks :
        pc[t] = "http_200" =>
            LET given == loc[t].arg.ctrl
                out == loc[t].out
            IN /\ loc[t].op = "get-device-list" =>
                    /\ \A i \in 1..(Len(out) - 1) : out[i].id < out[i + 1].id
                    /\ { out[i].id : i \in 1..Len(out) } = { given[i].id : i \in 1..Len(given) }
                    /\ Len(out) = Len(given)
               /\ loc[t].op = "get-device-sensor-info" =>
                    /\ \A i \in 1..(Len(out) - 1) :
                          StringLe(out[i].name, out[i + 1].name) /\ out[i].name # out[i + 1].name
                    /\ Len(out) = Len(given)
                    /\ \A i \in 1..Len(given) : \E j \in 1..Len(out) :
                          /\ out[j].name = given[i].name
                          /\ Len(out[j].data) = Len(given[i].data)
                          /\ { out[j].data[k] : k \in 1..Len(out[j].data) }
                               = { given[i].data[k] : k \in 1..Len(given[i].data) }
                          /\ \A k \in 1..(Len(out[j].data) - 1) :
                                /\ StringLe(out[j].data[k].name, out[j].data[k + 1].name)
                                /\ out[j].data[k].name # out[j].data[k + 1].name

C29_Witness ==
    \E u \in Tasks :
        /\ pc[u] = "http_200"
        /\ loc[u].op = "get-device-sensor-info"
        /\ Len(loc[u].arg.ctrl) = 2
        /\ loc[u].arg.ctrl[1].name = <<"a", "b">>
        /\ loc[u].arg.ctrl[2].name = <<"B">>
        /\ Len(loc[u].arg.ctrl[2].data) = 3
        /\ loc[u].arg.ctrl[2].data[1].name = <<"y">>
        /\ loc[u].out[1].name = <<"B">>
        /\ loc[u].out[1].data[1].name = <<"x">>

\* C30: a monitor configuration that is saved and listed comes back with
\* the device_id, sensor, typ and config it was saved with, for a Log config
\* (fields, sort_field, sort_direction, limit) and for a Line config
\* (x_field, y_field, limit); between the two the config is a JSON document.
C30_MonitorConfRoundTrip ==
    \A t \in Tasks :
        (loc[t].op = "save_monitor_conf" /\ pc[t] = "api_ret") =>
            /\ loc[t].out.device_id = loc[t].arg.device_id
            /\ loc[t].out.sensor = loc[t].arg.sensor
            /\ loc[t].out.typ = loc[t].arg.typ
            /\ loc[t].out.config = loc[t].arg.config

C30_Witness ==
    \E t \in Tasks :
        /\ loc[t].op = "save_monitor_conf"
        /\ pc[t] = "api_ret"
        /\ loc[t].arg.config.variant = "ctrl::MonitorTypeConf::Line"
        /\ loc[t].arg.config.x_field # loc[t].arg.config.y_field
        /\ loc[t].out.id # loc[t].arg.id

\* C31: in every row stored for a request that save-monitor-conf accepted,
\* the variant of config mirrors typ: typ is Log iff config is a Log config
\* and typ is Line iff config is a Line config.
C31_ConfigMirrorsTyp ==
    \A t \in Tasks :
        (loc[t].endpoint = "save-monitor-conf" /\ pc[t] = "api_saved") =>
            /\ loc[t].out.typ = "LOG" <=> DOMAIN loc[t].out.config = {"Log"}
            /\ loc[t].out.typ = "LINE" <=> DOMAIN loc[t].out.config = {"Line"}

\* C32: get_device_sensor_info(id) fails with DeviceNotFound when its lookup
\* finds no id in the registry, fails with DeviceNotConfigured when the
\* device it reads has an init_state other than Sensors, and otherwise
\* returns one SensorInfo per entry of the device's sensors map, named by the
\* entry's key and holding that sensor's fields with their types; no step of
\* it changes the registry, a device or last_id.
C32_SensorInfoContract ==
    [][ \A t \in Tasks :
          (loc[t].op = "get_device_sensor_info" /\ pc[t] \in {"gsi_get", "gsi_read"}
           /\ pc'[t] # pc[t] /\ pc'[t] # "cancelled") =>
              LET id == loc[t].id
                  sensor_map == dev[id].sensor_map
                  out == loc'[t].out
              IN /\ device_map' = device_map
                 /\ dev' = dev
                 /\ last_id' = last_id
                 /\ fs' = fs
                 /\ (pc[t] = "gsi_get" /\ id \notin device_map) =>
                       pc'[t] = "gsi_err" /\ loc'[t].res.err = "DeviceNotFound"
                 /\ (pc[t] = "gsi_get" /\ id \in device_map) => pc'[t] = "gsi_read"
                 /\ (pc[t] = "gsi_read" /\ dev[id].init_state # "Sensors") =>
                       pc'[t] = "gsi_err" /\ loc'[t].res.err = "DeviceNotConfigured"
                 /\ (pc[t] = "gsi_read" /\ dev[id].init_state = "Sensors") =>
                       /\ pc'[t] = "gsi_ok"
                       /\ Cardinality(out) = Cardinality(DOMAIN sensor_map)
                       /\ \A name \in DOMAIN sensor_map : \E info \in out :
                             /\ info.name = name
                             /\ { e.name : e \in info.data } = DOMAIN sensor_map[name].data_map
                             /\ Cardinality(info.data)
                                  = Cardinality(DOMAIN sensor_map[name].data_map)
                             /\ \A e \in info.data :
                                   e.typ = sensor_map[name].data_map[e.name].typ ]_vars

C32_Witness ==
    \E t, u \in Tasks :
        /\ pc[t] = "gsi_ok"
        /\ \E info \in loc[t].out : info.data # {}
        /\ pc[u] = "gsi_err"
        /\ loc[u].op = "get_device_sensor_info"
        /\ loc[u].res.err = "DeviceNotFound"

\* C33: on the step on which device_sensor_init(id) returns Ok, the registry
\* contains id, and the device has init_state Sensors and every given sensor
\* in its sensors map; it never returns Ok for a device that delete_device
\* has removed.
C33_SensorInitOnRegistered ==
    [][ \A t \in Tasks :
          (pc[t] = "dsi_state" /\ pc'[t] = "dsi_ok") =>
              /\ loc[t].id \in device_map'
              /\ loc[t].id \notin removed'
              /\ dev'[loc[t].id].init_state = "Sensors"
              /\ \A i \in 1..Len(loc[t].sensors) :
                    loc[t].sensors[i].name \in DOMAIN dev'[loc[t].id].sensor_map ]_vars

\* C34: every started start_device_init, device_sensor_init, delete_device
\* and read operation eventually returns, whatever the interleaving,
\* provided filesystem operations return.
C34_EveryOperationReturns ==
    \A t \in Tasks : (pc[t] # "idle") ~> (pc[t] \in Returned)

\* C35: delete_device(id) removes the registry entry only after the
\* directory tree has been removed: for an unknown id it returns
\* DeviceNotFound and changes nothing; when the removal fails it returns
\* the error and the device stays registered with unchanged fields; on
\* success exactly the entry id is removed, the entries of the other
\* devices and last_id are unchanged.
C35_DeleteDeviceFrame ==
    [][ \A t \in Tasks :
          LET id == loc[t].id
              unknown == pc[t] = "del_map" /\ id \notin device_map
              failed == pc[t] = "del_rm" /\ pc'[t] = "del_err"
              deleted == pc[t] = "del_rm" /\ pc'[t] = "del_ok"
          IN /\ (pc[t] \in {"del_map", "del_dev", "del_rm"} /\ pc'[t] # pc[t]) =>
                   /\ last_id' = last_id
                   /\ dev' = dev
                   /\ device_map' \in {device_map, device_map \ {id}}
                   /\ (device_map' # device_map) <=> deleted
                   /\ (pc'[t] = "del_ok") <=> deleted
             /\ (unknown /\ pc'[t] # pc[t]) =>
                   /\ pc'[t] = "del_err"
                   /\ loc'[t].res = Err("DeviceNotFound")
                   /\ fs' = fs
             /\ (pc[t] = "del_map" /\ ~unknown /\ pc'[t] # pc[t]) =>
                   /\ pc'[t] = "del_dev"
                   /\ fs' = fs
             /\ failed =>
                   /\ loc'[t].res = Err("io")
                   /\ id \in device_map'
             /\ deleted =>
                   /\ id \in device_map
                   /\ ~IsDir(fs', full_data_dir(DirName(t)))
                   /\ loc'[t].res.status = "ok" ]_vars

\* One delete_device has removed a device and another has returned the
\* error of a failed removal.
C35_Witness ==
    \E t, u \in Tasks :
        /\ pc[t] = "del_ok"
        /\ loc[t].id \notin device_map
        /\ pc[u] = "del_err"
        /\ loc[u].res.err = "io"

\* The device_sensor rows of device id.
RowsOf(id) == { j \in SensorRows : boot.input.device_sensors[j].device_id = id }

\* The columns the column-type rows give for a table.
ColumnsOf(table_name) ==
    { [name |-> boot.input.sensor_types[i].column_name,
       typ |-> sensor_data_type_from_udt(boot.input.sensor_types[i].udt_name)] :
          i \in { k \in ColumnRows : boot.input.sensor_types[k].table_name = table_name } }

\* C36: after DeviceManager::new has succeeded the sensors map of every
\* device has exactly one entry for each device_sensor row of the device,
\* keyed by the sensor_name of the row and holding the columns of its
\* sensor_table_name; no row is dropped.
C36_EveryRowHasItsSensor ==
    (boot.done /\ boot.res.ok) =>
        \A id \in DOMAIN boot.res.device_map :
            LET ds == boot.input.device_sensors
                sensor_map == boot.res.device_map[id].sensor_map
            IN /\ DOMAIN sensor_map = { ds[j].sensor_name : j \in RowsOf(id) }
               /\ Cardinality(DOMAIN sensor_map) = Cardinality(RowsOf(id))
               /\ \A j \in RowsOf(id) :
                     { sensor_map[ds[j].sensor_name].data_map[c] :
                          c \in DOMAIN sensor_map[ds[j].sensor_name].data_map }
                        = ColumnsOf(ds[j].sensor_table_name)

\* The device_sensor rows whose device_id is not the id of a device row.
OrphanRows == { j \in SensorRows : boot.input.device_sensors[j].device_id \notin BootIds }

\* C37 as stated: whenever some device_sensor row references a device_id
\* that is not among the device rows, DeviceManager::new fails with
\* DeviceSensorsUnknownDevice and no registry is produced.
C37_UnknownDeviceIsFatal ==
    (boot.done /\ OrphanRows # {}) =>
        /\ ~boot.res.ok
        /\ boot.res.err = "DeviceSensorsUnknownDevice"
        /\ device_map = {}
        /\ DOMAIN dev = {}
        /\ \A t \in Tasks : pc[t] = "down"

\* C37, amended: whenever some device_sensor row references a device_id
\* that is not among the device rows, DeviceManager::new fails and no
\* registry is produced; the error is DeviceSensorsUnknownDevice when every
\* column-type row has a supported type, and the SensorDataUnknownType of
\* the second loop otherwise.
C37_UnknownDeviceFailsAfterTypes ==
    (boot.done /\ OrphanRows # {}) =>
        /\ ~boot.res.ok
        /\ boot.res.err = IF BadRows = {} THEN "DeviceSensorsUnknownDevice"
                                          ELSE "SensorDataUnknownType"
        /\ device_map = {}
        /\ DOMAIN dev = {}
        /\ \A t \in Tasks : pc[t] = "down"

\* The second device_sensor row names a device that has no row, the
\* column types are supported, and new has failed on it.
C37_Witness ==
    /\ boot.done
    /\ OrphanRows = {2}
    /\ BadRows = {}
    /\ boot.input.sensor_types # <<>>
    /\ ~boot.res.ok
    /\ boot.res.err = "DeviceSensorsUnknownDevice"

\* The texts of v with sep between each two.
RECURSIVE Join(_, _)
Join(v, sep) ==
    IF v = <<>> THEN ""
    ELSE IF Len(v) = 1 THEN v[1] ELSE v[1] \o sep \o Join(Tail(v), sep)

\* The arguments of all parts, in part order.
RECURSIVE AllArgs(_)
AllArgs(parts) ==
    IF parts = <<>> THEN <<>>
    ELSE (IF IsNull(Head(parts).args) THEN <<>> ELSE Head(parts).args[1])
             \o AllArgs(Tail(parts))

NonEmptySql(parts) ==
    LET sqls == [i \in 1..Len(parts) |-> parts[i].sql] IN
    SelectSeq(sqls, LAMBDA x : x # "")

\* C38: append_sql writes the SQL of the parts whose SQL is not empty, in
\* order, with one separator between two written parts and none before the
\* first or after the last, and appends the arguments of all parts in part
\* order; the SELECT generated for a table is "SELECT c1, c2, ... FROM
\* table" for the columns in insertion order.
C38_AppendSqlJoins ==
    \A t \in Tasks :
        /\ (pc[t] = "q_ret" /\ loc[t].op = "append_sql") =>
              /\ loc[t].out.s = loc[t].arg.s \o Join(NonEmptySql(loc[t].arg.parts), loc[t].arg.sep)
              /\ loc[t].out.args = AllArgs(loc[t].arg.parts)
        /\ (pc[t] = "q_ret" /\ loc[t].op = "sql_raw" /\ ~IsNull(loc[t].arg.table)) =>
              loc[t].out.s =
                  "SELECT "
                      \o Join(SelectSeq(loc[t].arg.columns, LAMBDA x : x # ""), ", ")
                      \o " FROM " \o loc[t].arg.table[1]

====
